---------------------------- MODULE Spec2Model ----------------------------
(***************************************************************************)
(* The text-to-graph compiler of trustquery-draw: SyntaxManager.parse and  *)
(* the helpers it owns (CommandHandler, QuotedStringParser,                *)
(* EdgeSyntaxParser, IDManager, NodeBuilder, EdgeBuilder).                 *)
(*                                                                         *)
(* A JavaScript string is modelled as a sequence of one-character strings, *)
(* so that trimming, splitting, regular-expression matching and substring  *)
(* replacement are computed character by character as the code does.       *)
(***************************************************************************)
EXTENDS Integers, Sequences, FiniteSets, TLC

VARIABLES
    build,              \* which copy of NodeBuilder the SyntaxManager imports
    nodeIdToNumber,     \* IDManager.nodeIdToNumber  (label -> number)
    numberToNodeId,     \* IDManager.numberToNodeId  (number -> label)
    nextId,             \* IDManager.nextId
    nodes,              \* NodeBuilder.nodes         (label -> node object)
    nodeOrder,          \* NodeBuilder.nodeOrder
    edges,              \* EdgeBuilder.edges
    detectedCommands,   \* SyntaxManager.detectedCommands
    quotedStrings,      \* QuotedStringParser.quotedStrings, in insertion order
    placeholderCounter, \* QuotedStringParser.placeholderCounter
    lineArrows,         \* per line of the last parse: the line, what findArrows
                        \* and extractNodeLabels returned for it
    history,            \* the calls made so far: [op, input, ret] each
    ui                  \* TrustQueryDraw.diagramHistory and the FlowDiagram
                        \* component: mounted, its nodes state, prevCommandsRef,
                        \* and the log of the executeCommand calls it made

vars == <<build, nodeIdToNumber, numberToNodeId, nextId, nodes, nodeOrder, edges,
          detectedCommands, quotedStrings, placeholderCounter, lineArrows, history,
          ui>>

-----------------------------------------------------------------------------
(* Values that are not strings.  A string is a sequence of one-character   *)
(* strings, so these one-element sequences equal no string.                *)

Null == <<"null">>
Undefined == <<"undefined">>
Threw == <<"threw">>
Inherited == <<"Object.prototype member">>

(* Bounds of the model. *)
MaxCalls == 3
MaxLineLen == 5
MaxUnitCalls == 4

-----------------------------------------------------------------------------
(* String primitives *)

Min(S) == CHOOSE x \in S : \A y \in S : x <= y
Max(S) == CHOOSE x \in S : \A y \in S : x >= y

IsWS(c) == c \in {" ", "\n", "\t"}

Trim(s) ==
    LET keep == {i \in 1..Len(s) : ~IsWS(s[i])}
    IN  IF keep = {} THEN <<>> ELSE SubSeq(s, Min(keep), Max(keep))

StartsWith(s, pat) == Len(pat) <= Len(s) /\ SubSeq(s, 1, Len(pat)) = pat

MatchAt(s, p, pat) ==
    p >= 1 /\ p + Len(pat) - 1 <= Len(s) /\ SubSeq(s, p, p + Len(pat) - 1) = pat

\* String.prototype.indexOf: first position of pat in s at or after from, 0 if none
IndexOf(s, pat, from) ==
    LET hits == {p \in from..(Len(s) - Len(pat) + 1) : MatchAt(s, p, pat)}
    IN  IF hits = {} THEN 0 ELSE Min(hits)

\* String.prototype.replace with a string pattern: the first occurrence only
ReplaceFirst(s, pat, by) ==
    LET p == IndexOf(s, pat, 1)
    IN  IF p = 0 THEN s
        ELSE SubSeq(s, 1, p - 1) \o by \o SubSeq(s, p + Len(pat), Len(s))

\* String.prototype.split on a one-character separator
RECURSIVE Split(_, _)
Split(s, sep) ==
    LET p == IndexOf(s, <<sep>>, 1)
    IN  IF p = 0 THEN <<s>>
        ELSE <<SubSeq(s, 1, p - 1)>> \o Split(SubSeq(s, p + 1, Len(s)), sep)

\* Array.prototype.join
RECURSIVE Join(_, _)
Join(parts, sep) ==
    IF Len(parts) = 0 THEN <<>>
    ELSE IF Len(parts) = 1 THEN parts[1]
    ELSE parts[1] \o <<sep>> \o Join(Tail(parts), sep)

UpperChars == <<"A","B","C","D","E","F","G","H","I","J","K","L","M",
                "N","O","P","Q","R","S","T","U","V","W","X","Y","Z">>
LowerChars == <<"a","b","c","d","e","f","g","h","i","j","k","l","m",
                "n","o","p","q","r","s","t","u","v","w","x","y","z">>
DigitChars == <<"0","1","2","3","4","5","6","7","8","9">>

PosIn(seq, c) ==
    LET hits == {i \in 1..Len(seq) : seq[i] = c}
    IN  IF hits = {} THEN 0 ELSE Min(hits)

ToLowerChar(c) == IF PosIn(UpperChars, c) > 0 THEN LowerChars[PosIn(UpperChars, c)] ELSE c

\* String.prototype.toLowerCase
ToLowerCase(s) == [i \in 1..Len(s) |-> ToLowerChar(s[i])]

\* the regular-expression class \w
IsWordChar(c) ==
    PosIn(UpperChars, c) > 0 \/ PosIn(LowerChars, c) > 0 \/ PosIn(DigitChars, c) > 0 \/ c = "_"

\* value of c as a digit in the given radix, -1 if it is none
DigitValue(c, radix) ==
    LET d == PosIn(DigitChars, c)
        h == PosIn(SubSeq(LowerChars, 1, 6), ToLowerChar(c))
        v == IF d > 0 THEN d - 1 ELSE IF h > 0 THEN 9 + h ELSE -1
    IN  IF v < radix THEN v ELSE -1

RECURSIVE DigitsValue(_, _, _)
DigitsValue(s, radix, acc) ==
    IF Len(s) = 0 \/ DigitValue(s[1], radix) < 0 THEN acc
    ELSE DigitsValue(Tail(s), radix, acc * radix + DigitValue(s[1], radix))

\* parseInt(string, radix); radix 0 stands for the omitted argument.
\* Returns [nan |-> BOOLEAN, val |-> Int].
ParseInt(str, radix) ==
    LET lead == {i \in 1..Len(str) : ~IsWS(str[i])}
        s0 == IF lead = {} THEN <<>> ELSE SubSeq(str, Min(lead), Len(str))
        neg == Len(s0) > 0 /\ s0[1] = "-"
        s1 == IF Len(s0) > 0 /\ s0[1] \in {"-", "+"} THEN Tail(s0) ELSE s0
        hex == radix \in {0, 16} /\ Len(s1) >= 2 /\ s1[1] = "0" /\ s1[2] \in {"x", "X"}
        r == IF hex THEN 16 ELSE IF radix = 0 THEN 10 ELSE radix
        s2 == IF hex THEN SubSeq(s1, 3, Len(s1)) ELSE s1
    IN  IF Len(s2) = 0 \/ DigitValue(s2[1], r) < 0 THEN [nan |-> TRUE, val |-> 0]
        ELSE [nan |-> FALSE,
              val |-> IF neg THEN 0 - DigitsValue(s2, r, 0) ELSE DigitsValue(s2, r, 0)]

\* Number.prototype.toString for a non-negative integer
RECURSIVE NumberToString(_)
NumberToString(n) ==
    IF n < 10 THEN <<DigitChars[n + 1]>>
    ELSE NumberToString(n \div 10) \o <<DigitChars[(n % 10) + 1]>>

\* the one element of a one-element set: Pick({e(x) : x \in {v}}) is e(v) with v
\* computed once (a const declaration of the code)
Pick(S) == CHOOSE x \in S : TRUE

\* JavaScript truthiness of a string-or-undefined value
Truthy(v) == v # Undefined /\ v # Null /\ v # <<>>

-----------------------------------------------------------------------------
(* IDManager.  Its state is the record                                      *)
(* [nodeIdToNumber, numberToNodeId, nextId]; a Map is a function.           *)

EmptyMap == <<>>

NewIDManager == [nodeIdToNumber |-> EmptyMap, numberToNodeId |-> EmptyMap, nextId |-> 1]

MapGet(m, k) == IF k \in DOMAIN m THEN m[k] ELSE Undefined

MapSet(m, k, v) == [x \in (DOMAIN m) \cup {k} |-> IF x = k THEN v ELSE m[x]]

\* assignId without its has() check: a label seen again is numbered again
assignIdAgain(idm, nodeLabel) ==
    [idm |-> [nodeIdToNumber |-> MapSet(idm.nodeIdToNumber, nodeLabel, idm.nextId),
              numberToNodeId |-> MapSet(idm.numberToNodeId, idm.nextId, nodeLabel),
              nextId |-> idm.nextId + 1],
     ret |-> idm.nextId]

\* assignId(nodeLabel): [idm |-> the manager afterwards, ret |-> the number]
assignId(idm, nodeLabel) ==
    IF nodeLabel \in DOMAIN idm.nodeIdToNumber
    THEN [idm |-> idm, ret |-> idm.nodeIdToNumber[nodeLabel]]
    ELSE [idm |-> [nodeIdToNumber |-> MapSet(idm.nodeIdToNumber, nodeLabel, idm.nextId),
                   numberToNodeId |-> MapSet(idm.numberToNodeId, idm.nextId, nodeLabel),
                   nextId |-> idm.nextId + 1],
          ret |-> idm.nextId]

\* resolveReference(ref): the label, or Threw
resolveReference(idm, ref) ==
    IF StartsWith(ref, <<":">>)
    THEN Pick({ IF numericId.nan THEN Threw
                ELSE IF ~Truthy(MapGet(idm.numberToNodeId, numericId.val)) THEN Threw
                ELSE idm.numberToNodeId[numericId.val]
                : numericId \in {ParseInt(Tail(ref), 0)} })
    ELSE ref

\* clear() that forgets to reset the counter
IDManager_clearMapsOnly(idm) ==
    [nodeIdToNumber |-> EmptyMap, numberToNodeId |-> EmptyMap, nextId |-> idm.nextId]

\* clear()
IDManager_clear(idm) == NewIDManager

-----------------------------------------------------------------------------
(* NodeBuilder.  Its state is the record [nodes, nodeOrder].                *)

NewNodeBuilder == [nodes |-> EmptyMap, nodeOrder |-> <<>>]

circle == <<"c","i","r","c","l","e">>
square == <<"s","q","u","a","r","e">>
rectangle == <<"r","e","c","t","a","n","g","l","e">>
diamond == <<"d","i","a","m","o","n","d">>
constructor == <<"c","o","n","s","t","r","u","c","t","o","r">>
proto == <<"_","_","p","r","o","t","o","_","_">>

\* this.shapeKeywords[key]: an own property, or one every object literal inherits
shapeKeywords(key) ==
    IF key \in {circle, square, rectangle, diamond} THEN key
    ELSE IF key \in {constructor, proto} THEN Inherited
    ELSE Undefined

\* const type = this.shapeKeywords[lowerLabel] || 'rectangle'
shapeType(label) ==
    Pick({ IF Truthy(v) THEN v ELSE rectangle : v \in {shapeKeywords(ToLowerCase(label))} })

\* ensureNode whose has() check looks up the untrimmed label
ensureNodeRawCheck(nb, idm, label) ==
    Pick({ IF label \notin DOMAIN nb.nodes
           THEN Pick({ [nb |-> [nodes |-> MapSet(nb.nodes, trimmed,
                                          [id |-> trimmed, label |-> trimmed,
                                           type |-> shapeType(trimmed),
                                           numericId |-> a.ret]),
                                nodeOrder |-> Append(nb.nodeOrder, trimmed)],
                        idm |-> a.idm, ret |-> trimmed]
                       : a \in {assignId(idm, trimmed)} })
           ELSE [nb |-> nb, idm |-> idm, ret |-> trimmed]
           : trimmed \in {Trim(label)} })

\* ensureNode of src/parsers/NodeBuilder.js:
\* [nb |-> builder afterwards, idm |-> manager afterwards, ret |-> returned label]
ensureNode(nb, idm, label) ==
    Pick({ IF trimmed \notin DOMAIN nb.nodes
           THEN Pick({ [nb |-> [nodes |-> MapSet(nb.nodes, trimmed,
                                          [id |-> trimmed, label |-> trimmed,
                                           type |-> shapeType(trimmed),
                                           numericId |-> a.ret]),
                                nodeOrder |-> Append(nb.nodeOrder, trimmed)],
                        idm |-> a.idm, ret |-> trimmed]
                       : a \in {assignId(idm, trimmed)} })
           ELSE [nb |-> nb, idm |-> idm, ret |-> trimmed]
           : trimmed \in {Trim(label)} })

\* the label a trimmed label stands for: itself, or what :N resolves to, or Threw
resolveLabel(idm, trimmed) ==
    IF StartsWith(trimmed, <<":">>) THEN resolveReference(idm, trimmed) ELSE trimmed

\* ensureNode of the NodeBuilder copy that resolves :N references; ret is Threw
\* when resolveReference throws
ensureNodeResolving(nb, idm, label) ==
    Pick({ IF resolvedLabel = Threw THEN [nb |-> nb, idm |-> idm, ret |-> Threw]
           ELSE IF resolvedLabel \notin DOMAIN nb.nodes
           THEN Pick({ [nb |-> [nodes |-> MapSet(nb.nodes, resolvedLabel,
                                          [id |-> resolvedLabel,
                                           type |-> shapeType(resolvedLabel),
                                           nodeNumber |-> a.ret]),
                                nodeOrder |-> Append(nb.nodeOrder, resolvedLabel)],
                        idm |-> a.idm, ret |-> resolvedLabel]
                       : a \in {assignId(idm, resolvedLabel)} })
           ELSE [nb |-> nb, idm |-> idm, ret |-> resolvedLabel]
           : resolvedLabel \in {resolveLabel(idm, Trim(label))} })

Builds == {"parsers", "resolving"}

ensureNodeOf(b, nb, idm, label) ==
    IF b = "parsers" THEN ensureNode(nb, idm, label) ELSE ensureNodeResolving(nb, idm, label)

\* getNodes(): the Map's values in insertion order
getNodes(nb) == [i \in 1..Len(nb.nodeOrder) |-> nb.nodes[nb.nodeOrder[i]]]

\* the number a node object carries, under either copy's field name
NodeNumberOf(node) ==
    IF "numericId" \in DOMAIN node THEN node.numericId ELSE node.nodeNumber

-----------------------------------------------------------------------------
(* EdgeBuilder *)

\* createEdge that keeps one edge per source, target and label
createEdgeOncePerPair(es, source, target, label) ==
    IF \E i \in 1..Len(es) :
         es[i].source = source /\ es[i].target = target /\ es[i].label = label
    THEN es
    ELSE Append(es, [id |-> source \o <<"-">> \o target \o <<"-">> \o NumberToString(Len(es)),
                     source |-> source, target |-> target, label |-> label])

\* createEdge(source, target, label)
createEdge(es, source, target, label) ==
    Append(es, [id |-> source \o <<"-">> \o target \o <<"-">> \o NumberToString(Len(es)),
                source |-> source, target |-> target, label |-> label])

ArrayGet(arr, i) == IF i \in 1..Len(arr) THEN arr[i] ELSE Undefined

\* the loop body with the second edge of a bidirectional arrow left out
createEdgesOfOneWay(es, arrow, sourceName, targetName) ==
    IF ~Truthy(sourceName) \/ ~Truthy(targetName) THEN es
    ELSE IF arrow.direction = "backward"
         THEN createEdge(es, targetName, sourceName, arrow.edgeLabel)
    ELSE createEdge(es, sourceName, targetName, arrow.edgeLabel)

\* one turn of the loop of createEdgesFromArrows
createEdgesOf(es, arrow, sourceName, targetName) ==
    IF ~Truthy(sourceName) \/ ~Truthy(targetName) THEN es
    ELSE IF arrow.direction = "forward"
         THEN createEdge(es, sourceName, targetName, arrow.edgeLabel)
    ELSE IF arrow.direction = "backward"
         THEN createEdge(es, targetName, sourceName, arrow.edgeLabel)
    ELSE IF arrow.direction = "bidirectional"
         THEN createEdge(createEdge(es, sourceName, targetName, arrow.edgeLabel),
                         targetName, sourceName, arrow.edgeLabel)
    ELSE es

\* the loop pairing every arrow with the first two names
RECURSIVE createEdgesFromFirstPair(_, _, _, _)
createEdgesFromFirstPair(es, arrows, nodeNames, i) ==
    IF i > Len(arrows) THEN es
    ELSE createEdgesFromFirstPair(createEdgesOf(es, arrows[i], ArrayGet(nodeNames, 1),
                                                ArrayGet(nodeNames, 2)),
                                  arrows, nodeNames, i + 1)

\* createEdgesFromArrows(arrows, nodeNames), from arrow i (1-based) on
RECURSIVE createEdgesFrom(_, _, _, _)
createEdgesFrom(es, arrows, nodeNames, i) ==
    IF i > Len(arrows) THEN es
    ELSE createEdgesFrom(createEdgesOf(es, arrows[i], ArrayGet(nodeNames, i),
                                       ArrayGet(nodeNames, i + 1)),
                         arrows, nodeNames, i + 1)

createEdgesFromArrows(es, arrows, nodeNames) == createEdgesFrom(es, arrows, nodeNames, 1)

-----------------------------------------------------------------------------
(* EdgeSyntaxParser.  arrowPattern is                                       *)
(*   /<-([^<>]+)->|<->|-([^-<>]+)->|->|<-/g                                 *)
(* Positions p are 1-based here; an arrow's index is 0-based as in the code.*)

\* the end of the longest run of characters outside `stop' that starts at p
\* (p - 1 when the run is empty)
RunEnd(line, p, stop) ==
    Pick({ IF bad = {} THEN Len(line) ELSE Min(bad) - 1
           : bad \in {{i \in p..Len(line) : line[i] \in stop}} })

NoMatch == [length |-> 0]

\* <-([^<>]+)->  at p: the greedy group backs off one character for the final ->
MatchBiLabel(line, p) ==
    Pick({ IF MatchAt(line, p, <<"<", "-">>) /\ e - (p + 2) + 1 >= 2
              /\ line[e] = "-" /\ MatchAt(line, e + 1, <<">">>)
           THEN [length |-> e + 1 - p + 1, g1 |-> SubSeq(line, p + 2, e - 1), g2 |-> Undefined]
           ELSE NoMatch
           : e \in {RunEnd(line, p + 2, {"<", ">"})} })

\* -([^-<>]+)->  at p
MatchFwdLabel(line, p) ==
    Pick({ IF MatchAt(line, p, <<"-">>) /\ e - (p + 1) + 1 >= 1
              /\ MatchAt(line, e + 1, <<"-", ">">>)
           THEN [length |-> e + 2 - p + 1, g1 |-> Undefined, g2 |-> SubSeq(line, p + 1, e)]
           ELSE NoMatch
           : e \in {RunEnd(line, p + 1, {"-", "<", ">"})} })

MatchLiteral(line, p, lit) ==
    IF MatchAt(line, p, lit)
    THEN [length |-> Len(lit), g1 |-> Undefined, g2 |-> Undefined]
    ELSE NoMatch

\* the first of a list of match results that is a match
RECURSIVE FirstMatch(_)
FirstMatch(ms) ==
    IF Len(ms) = 0 THEN NoMatch
    ELSE IF ms[1].length > 0 THEN ms[1]
    ELSE FirstMatch(Tail(ms))

\* the alternatives listed shortest first
arrowPatternShortestFirst(line, p) ==
    FirstMatch(<< MatchLiteral(line, p, <<"<", "-">>),
                  MatchLiteral(line, p, <<"-", ">">>),
                  MatchFwdLabel(line, p),
                  MatchLiteral(line, p, <<"<", "-", ">">>),
                  MatchBiLabel(line, p) >>)

\* the alternatives of arrowPattern tried in order at position p
arrowPattern(line, p) ==
    FirstMatch(<< MatchBiLabel(line, p),
                  MatchLiteral(line, p, <<"<", "-", ">">>),
                  MatchFwdLabel(line, p),
                  MatchLiteral(line, p, <<"-", ">">>),
                  MatchLiteral(line, p, <<"<", "-">>) >>)

\* the arrow object without the test for a backward arrow
arrowOfNoBackward(line, p, match) ==
    [index |-> p - 1,
     length |-> match.length,
     direction |-> IF Truthy(match.g1) THEN "bidirectional"
                   ELSE IF Truthy(match.g2) THEN "forward"
                   ELSE IF SubSeq(line, p, p + match.length - 1) = <<"<", "-", ">">>
                        THEN "bidirectional"
                   ELSE "forward",
     edgeLabel |-> IF Truthy(match.g1) THEN Trim(match.g1)
                   ELSE IF Truthy(match.g2) THEN Trim(match.g2)
                   ELSE Null,
     raw |-> SubSeq(line, p, p + match.length - 1)]

\* the arrow object built from one match (the body of the while loop)
arrowOf(line, p, match) ==
    [index |-> p - 1,
     length |-> match.length,
     direction |-> IF Truthy(match.g1) THEN "bidirectional"
                   ELSE IF Truthy(match.g2) THEN "forward"
                   ELSE IF SubSeq(line, p, p + match.length - 1) = <<"<", "-", ">">>
                        THEN "bidirectional"
                   ELSE IF SubSeq(line, p, p + match.length - 1) = <<"<", "-">>
                        THEN "backward"
                   ELSE "forward",
     edgeLabel |-> IF Truthy(match.g1) THEN Trim(match.g1)
                   ELSE IF Truthy(match.g2) THEN Trim(match.g2)
                   ELSE Null,
     raw |-> SubSeq(line, p, p + match.length - 1)]

\* arrowPattern.exec from lastIndex = from - 1 on, repeated until it fails
RECURSIVE findArrowsFrom(_, _)
findArrowsFrom(line, from) ==
    Pick({ IF hits = {} THEN <<>>
           ELSE Pick({ <<arrowOf(line, Min(hits), m)>>
                       \o findArrowsFrom(line, Min(hits) + m.length)
                       : m \in {arrowPattern(line, Min(hits))} })
           : hits \in {{p \in from..Len(line) : arrowPattern(line, p).length > 0}} })

\* findArrows(line)
findArrows(line) == findArrowsFrom(line, 1)

\* String.prototype.substring(a, b), 0-based, end exclusive
Substring(s, a, b) == SubSeq(s, a + 1, b)

\* the array holding label when it is truthy, the empty array otherwise
IfTruthy(label) == IF Truthy(label) THEN <<label>> ELSE <<>>

\* extractNodeLabels(line, arrows): the forEach from arrow i on
RECURSIVE extractFrom(_, _, _, _)
extractFrom(line, arrows, i, lastIndex) ==
    IF i > Len(arrows) THEN <<>>
    ELSE IfTruthy(Trim(Substring(line, lastIndex, arrows[i].index)))
         \o (IF i = Len(arrows)
             THEN IfTruthy(Trim(Substring(line, arrows[i].index + arrows[i].length, Len(line))))
             ELSE <<>>)
         \o extractFrom(line, arrows, i + 1, arrows[i].index + arrows[i].length)

extractNodeLabels(line, arrows) ==
    IF Len(arrows) = 0 THEN <<>> ELSE extractFrom(line, arrows, 1, 0)

-----------------------------------------------------------------------------
(* QuotedStringParser.  quotedStrings is the Map as a sequence of           *)
(* [placeholder, original] entries in insertion order.                      *)

placeholderPrefix == <<"_","_","Q","U","O","T","E","D","_">>

Quote == "\""

\* the position of the quote that closes the one at open, 0 if there is none
ClosingQuote(text, open) == IF open = 0 THEN 0 ELSE IndexOf(text, <<Quote>>, open + 1)

\* input.replace(/"([^"]*)"/g, ...) from position from on, with the text before
\* it already rewritten to done: [text, quotedStrings, placeholderCounter]
RECURSIVE extractQuotedFrom(_, _, _, _)
extractQuotedFrom(text, from, done, qs) ==
    Pick({ IF open = 0 \/ ClosingQuote(text, open) = 0
           THEN [text |-> done \o SubSeq(text, from, Len(text)),
                 quotedStrings |-> qs, placeholderCounter |-> Len(qs)]
           ELSE Pick({ extractQuotedFrom(text, close + 1,
                           done \o SubSeq(text, from, open - 1)
                                \o placeholderPrefix \o NumberToString(Len(qs)),
                           Append(qs, [placeholder |-> placeholderPrefix
                                                        \o NumberToString(Len(qs)),
                                       original |-> SubSeq(text, open + 1, close - 1)]))
                       : close \in {ClosingQuote(text, open)} })
           : open \in {IndexOf(text, <<Quote>>, from)} })

\* extractQuotedStrings(input): the Map is cleared and the counter reset first
extractQuotedStrings(text) == extractQuotedFrom(text, 1, <<>>, <<>>)

\* restoreQuotedStrings(text): one replace per Map entry, in insertion order
RECURSIVE restoreQuotedStrings(_, _)
restoreQuotedStrings(qs, text) ==
    IF Len(qs) = 0 THEN text
    ELSE restoreQuotedStrings(Tail(qs), ReplaceFirst(text, qs[1].placeholder, qs[1].original))

-----------------------------------------------------------------------------
(* CommandHandler (src/parsers/CommandHandler.js): command detection        *)

rename == <<"r","e","n","a","m","e">>
layout == <<"l","a","y","o","u","t">>
tree == <<"t","r","e","e">>

\* array.map(arg => arg.trim())
MapTrim(arr) == [i \in 1..Len(arr) |-> Trim(arr[i])]

\* the end of the longest run starting at p that avoids the positions `outside'
ClassRunEnd(s, p, outside) ==
    Pick({ IF bad = {} THEN Len(s) ELSE Min(bad) - 1
           : bad \in {{i \in outside : i >= p}} })

NotParen(c) == c # ")"
NotWS(c) == ~IsWS(c)

\* equalsCommandPattern /^=(\w+)\s*\(([^)]*)\)$/ on trimmed:
\* [ok, name, args]
equalsCommandPattern(trimmed) ==
    Pick({ Pick({ Pick({ IF StartsWith(trimmed, <<"=">>) /\ w >= 2
                            /\ MatchAt(trimmed, sp + 1, <<"(">>)
                            /\ MatchAt(trimmed, a + 1, <<")">>) /\ a + 1 = Len(trimmed)
                         THEN [ok |-> TRUE, name |-> SubSeq(trimmed, 2, w),
                               args |-> SubSeq(trimmed, sp + 2, a)]
                         ELSE [ok |-> FALSE, name |-> <<>>, args |-> <<>>]
                         : a \in {ClassRunEnd(trimmed, sp + 2, {i \in 1..Len(trimmed) : ~NotParen(trimmed[i])})} })
                  : sp \in {ClassRunEnd(trimmed, w + 1, {i \in 1..Len(trimmed) : ~IsWS(trimmed[i])})} })
           : w \in {ClassRunEnd(trimmed, 2, {i \in 1..Len(trimmed) : ~IsWordChar(trimmed[i])})} })

\* atCommandPattern /^@(\S+)(.*)$/ on trimmed: [ok, nodeId, rest]
atCommandPattern(trimmed) ==
    Pick({ IF StartsWith(trimmed, <<"@">>) /\ e >= 2
              /\ \A i \in (e + 1)..Len(trimmed) : trimmed[i] # "\n"
           THEN [ok |-> TRUE, nodeId |-> SubSeq(trimmed, 2, e),
                 rest |-> SubSeq(trimmed, e + 1, Len(trimmed))]
           ELSE [ok |-> FALSE, nodeId |-> <<>>, rest |-> <<>>]
           : e \in {ClassRunEnd(trimmed, 2, {i \in 1..Len(trimmed) : ~NotWS(trimmed[i])})} })

\* the null that detectCommand returns for a line that is no command
NoCommand == [type |-> "null"]

\* the command object with the branch for rename left out
equalsCommandLayoutOnly(trimmed, commandName, args) ==
    IF commandName = layout
    THEN [type |-> "layout",
          layoutType |-> IF Truthy(args[1]) THEN args[1] ELSE tree,
          rawCommand |-> trimmed]
    ELSE NoCommand

\* the command object of a line that matched equalsCommandPattern
equalsCommand(trimmed, commandName, args) ==
    IF commandName = rename
    THEN [type |-> "rename", oldId |-> args[1],
          newLabel |-> IF Truthy(ArrayGet(args, 2)) THEN args[2] ELSE <<>>,
          rawCommand |-> trimmed]
    ELSE IF commandName = layout
    THEN [type |-> "layout",
          layoutType |-> IF Truthy(args[1]) THEN args[1] ELSE tree,
          rawCommand |-> trimmed]
    ELSE NoCommand

\* the command object of a line tried against atCommandPattern
atCommand(trimmed, atMatch) ==
    IF atMatch.ok
    THEN [type |-> "openStyleInspector", nodeId |-> atMatch.nodeId,
          params |-> Trim(atMatch.rest), rawCommand |-> trimmed]
    ELSE NoCommand

\* detectCommand without its second half, the test for @ commands
detectTrimmedEqualsOnly(trimmed) ==
    Pick({ IF equalsMatch.ok /\ equalsMatch.name \in {rename, layout}
           THEN equalsCommand(trimmed, equalsMatch.name,
                              MapTrim(Split(equalsMatch.args, ",")))
           ELSE NoCommand
           : equalsMatch \in {equalsCommandPattern(trimmed)} })

\* detectCommand(input) on the trimmed line: a command object, or NoCommand
detectTrimmed(trimmed) ==
    Pick({ IF equalsMatch.ok /\ equalsMatch.name \in {rename, layout}
           THEN equalsCommand(trimmed, equalsMatch.name,
                              MapTrim(Split(equalsMatch.args, ",")))
           ELSE atCommand(trimmed, atCommandPattern(trimmed))
           : equalsMatch \in {equalsCommandPattern(trimmed)} })

\* detectCommand(input)
detectCommand(line) == detectTrimmed(Trim(line))

\* extractCommand(input), over the lines from line i on, with what the earlier
\* lines gave: [commands, cleanedLines]
RECURSIVE extractCommandFrom(_, _, _, _)
extractCommandFrom(lines, i, commands, cleanedLines) ==
    IF i > Len(lines) THEN [commands |-> commands, cleanedLines |-> cleanedLines]
    ELSE Pick({ IF command.type # "null"
                THEN extractCommandFrom(lines, i + 1, Append(commands, command), cleanedLines)
                ELSE extractCommandFrom(lines, i + 1, commands, Append(cleanedLines, lines[i]))
                : command \in {detectCommand(lines[i])} })

\* extractCommand(input): [commands, cleanedInput]
extractCommand(text) ==
    Pick({ [commands |-> r.commands, cleanedInput |-> Join(r.cleanedLines, "\n")]
           : r \in {extractCommandFrom(Split(text, "\n"), 1, <<>>, <<>>)} })

-----------------------------------------------------------------------------
(* SyntaxManager.  While a parse runs its state is the record               *)
(* [nb, idm, edges, lineArrows, threw].                                     *)

\* restoredLabels.map(label => this.nodeBuilder.ensureNode(label)), from label i
\* on, with the ids the earlier labels gave; an exception ends the map.
\* [nb, idm, nodeIds, threw]
RECURSIVE ensureNodes(_, _, _, _, _, _)
ensureNodes(b, nb, idm, labels, i, nodeIds) ==
    IF i > Len(labels) THEN [nb |-> nb, idm |-> idm, nodeIds |-> nodeIds, threw |-> FALSE]
    ELSE Pick({ IF r.ret = Threw
                THEN [nb |-> nb, idm |-> idm, nodeIds |-> nodeIds, threw |-> TRUE]
                ELSE ensureNodes(b, r.nb, r.idm, labels, i + 1, Append(nodeIds, r.ret))
                : r \in {ensureNodeOf(b, nb, idm, labels[i])} })

\* the branch for a line with arrows, with the edges created from the labels
\* before the nodes are
parseArrowLineEdgesFirst(b, qs, ps, arrows, nodeLabels) ==
    Pick({ [nb |-> made.nb, idm |-> made.idm,
            edges |-> createEdgesFromArrows(ps.edges, arrows,
                         [i \in 1..Len(nodeLabels) |-> restoreQuotedStrings(qs, nodeLabels[i])]),
            threw |-> made.threw]
           : made \in {ensureNodes(b, ps.nb, ps.idm,
                         [i \in 1..Len(nodeLabels) |-> restoreQuotedStrings(qs, nodeLabels[i])],
                         1, <<>>)} })

\* the branch of parseLine for a line with arrows
parseArrowLine(b, qs, ps, arrows, nodeLabels) ==
    Pick({ [nb |-> made.nb, idm |-> made.idm,
            edges |-> IF made.threw THEN ps.edges
                      ELSE createEdgesFromArrows(ps.edges, arrows, made.nodeIds),
            threw |-> made.threw]
           : made \in {ensureNodes(b, ps.nb, ps.idm,
                         [i \in 1..Len(nodeLabels) |-> restoreQuotedStrings(qs, nodeLabels[i])],
                         1, <<>>)} })

\* the branch of parseLine for a line without arrows
parseNodeLine(b, qs, ps, line) ==
    Pick({ [nb |-> alone.nb, idm |-> alone.idm, edges |-> ps.edges,
            threw |-> (alone.ret = Threw)]
           : alone \in {ensureNodeOf(b, ps.nb, ps.idm, restoreQuotedStrings(qs, line))} })

\* parseLine(line)
parseLine(b, qs, ps, line) ==
    Pick({ Pick({ Pick({ [nb |-> r.nb, idm |-> r.idm, edges |-> r.edges, threw |-> r.threw,
                          lineArrows |-> Append(ps.lineArrows,
                                           [line |-> line, arrows |-> arrows,
                                            nodeLabels |-> nodeLabels])]
                         : r \in {IF Len(arrows) > 0
                                  THEN parseArrowLine(b, qs, ps, arrows, nodeLabels)
                                  ELSE parseNodeLine(b, qs, ps, line)} })
                  : nodeLabels \in {extractNodeLabels(line, arrows)} })
           : arrows \in {findArrows(line)} })

\* lines.forEach(line => this.parseLine(line)), from line i on; an exception
\* thrown by parseLine ends the loop
RECURSIVE parseLines(_, _, _, _, _)
parseLines(b, qs, ps, lines, i) ==
    IF i > Len(lines) \/ ps.threw THEN ps
    ELSE parseLines(b, qs, parseLine(b, qs, ps, lines[i]), lines, i + 1)

\* .map(line => line.trim()).filter(line => line.length > 0)
RECURSIVE TrimAndFilter(_)
TrimAndFilter(lines) ==
    IF Len(lines) = 0 THEN <<>>
    ELSE IfTruthy(Trim(lines[1])) \o TrimAndFilter(Tail(lines))

\* steps 3 and 4 of a parse that does not clear the two builders first
parseStructureUncleared(b, idm, commands, q) ==
    Pick({ [nb |-> ps.nb, idm |-> ps.idm, edges |-> ps.edges, lineArrows |-> ps.lineArrows,
            threw |-> ps.threw, commands |-> commands,
            quotedStrings |-> q.quotedStrings, placeholderCounter |-> q.placeholderCounter]
           : ps \in {parseLines(b, q.quotedStrings,
                        [nb |-> [nodes |-> nodes, nodeOrder |-> nodeOrder], idm |-> idm,
                         edges |-> edges,
                         lineArrows |-> <<>>, threw |-> FALSE],
                        TrimAndFilter(Split(q.text, "\n")), 1)} })

\* steps 3 and 4 of parse, and its result
parseStructure(b, idm, commands, q) ==
    Pick({ [nb |-> ps.nb, idm |-> ps.idm, edges |-> ps.edges, lineArrows |-> ps.lineArrows,
            threw |-> ps.threw, commands |-> commands,
            quotedStrings |-> q.quotedStrings, placeholderCounter |-> q.placeholderCounter]
           : ps \in {parseLines(b, q.quotedStrings,
                        [nb |-> NewNodeBuilder, idm |-> idm, edges |-> <<>>,
                         lineArrows |-> <<>>, threw |-> FALSE],
                        TrimAndFilter(Split(q.text, "\n")), 1)} })

\* parse(input) on a manager whose IDManager is idm:
\* [nb, idm, edges, lineArrows, threw, commands, quotedStrings, placeholderCounter]
parse(b, idm, text) ==
    Pick({ parseStructure(b, idm, ec.commands, extractQuotedStrings(ec.cleanedInput))
           : ec \in {extractCommand(text)} })

-----------------------------------------------------------------------------
(* Inputs *)

A == <<"A">>
B == <<"B">>
C == <<"C">>
D == <<"D">>
NL == <<"\n">>

\* every string of at most n characters over the alphabet
StringsUpTo(alphabet, n) == UNION {[1..k -> alphabet] : k \in 0..n}

\* what a session submits: documents of structural lines, :N references
\* (assigned and unassigned), a command line, padded labels
SessionInputs ==
    { A \o NL \o B,
      A \o NL \o B \o NL \o C,
      C \o <<"-", ">">> \o A,
      B \o <<"<", "-">> \o D,
      <<":", "1", "-", ">">> \o C,
      <<":", "3", " ", "-", ">", " ">> \o D,
      <<":", "9", "-", ">">> \o A,
      B \o NL \o <<":", "2", "<", "-", ">">> \o A,
      <<" ">> \o A \o <<" ">>,
      <<"@">> \o A \o NL \o C,
      <<":", "9", "-", ">">> \o A \o NL \o B,
      <<>> }

-----------------------------------------------------------------------------
(* The state machine *)

IDM == [nodeIdToNumber |-> nodeIdToNumber, numberToNodeId |-> numberToNodeId,
        nextId |-> nextId]

NB == [nodes |-> nodes, nodeOrder |-> nodeOrder]

\* the last call: its name, its argument, what it returned
calls == Len(history)
op == IF calls = 0 THEN "new" ELSE history[calls].op
input == IF calls = 0 THEN <<>> ELSE history[calls].input
ret == IF calls = 0 THEN [threw |-> FALSE] ELSE history[calls].ret

Returned(value) == [threw |-> FALSE, value |-> value]
Thrown == [threw |-> TRUE]

Called(name, arg, r) == history' = Append(history, [op |-> name, input |-> arg, ret |-> r])

\* new TrustQueryDraw(): an empty diagramHistory and no FlowDiagram yet
NewUI == [diagramHistory |-> <<>>, mounted |-> FALSE, flowNodes |-> <<>>,
          prevCommands |-> <<>>, executed |-> <<>>]

\* new SyntaxManager(), with either copy of NodeBuilder
Init ==
    /\ build \in Builds
    /\ nodeIdToNumber = EmptyMap
    /\ numberToNodeId = EmptyMap
    /\ nextId = 1
    /\ nodes = EmptyMap
    /\ nodeOrder = <<>>
    /\ edges = <<>>
    /\ detectedCommands = <<>>
    /\ quotedStrings = <<>>
    /\ placeholderCounter = 0
    /\ lineArrows = <<>>
    /\ history = <<>>
    /\ ui = NewUI

\* syntaxManager.parse(text)
DoParse(text) ==
    \E r \in {parse(build, IDM, text)} :
        /\ nodeIdToNumber' = r.idm.nodeIdToNumber
        /\ numberToNodeId' = r.idm.numberToNodeId
        /\ nextId' = r.idm.nextId
        /\ nodes' = r.nb.nodes
        /\ nodeOrder' = r.nb.nodeOrder
        /\ edges' = r.edges
        /\ detectedCommands' = r.commands
        /\ quotedStrings' = r.quotedStrings
        /\ placeholderCounter' = r.placeholderCounter
        /\ lineArrows' = r.lineArrows
        /\ Called("parse", text,
                  IF r.threw THEN Thrown
                  ELSE Returned([nodes |-> getNodes(r.nb), edges |-> r.edges,
                                 commands |-> r.commands]))
        /\ UNCHANGED <<ui, build, ui>>

Parse ==
    /\ calls < MaxCalls
    /\ \E text \in SessionInputs : DoParse(text)

\* syntaxManager.clearIDMappings()
ClearIDMappings ==
    /\ calls < MaxCalls
    /\ nodeIdToNumber' = IDManager_clear(IDM).nodeIdToNumber
    /\ numberToNodeId' = IDManager_clear(IDM).numberToNodeId
    /\ nextId' = IDManager_clear(IDM).nextId
    /\ Called("clearIDMappings", <<>>, Returned(Null))
    /\ UNCHANGED <<ui, build, nodes, nodeOrder, edges, detectedCommands, quotedStrings,
                   placeholderCounter, lineArrows>>

Next == Parse \/ ClearIDMappings

Spec == Init /\ [][Next]_vars

-----------------------------------------------------------------------------
(* The helpers called directly: IDManager and NodeBuilder as objects of     *)
(* their own, sharing the one IDManager as SyntaxManager wires them.        *)

UnitLabels == {A, <<" ">> \o A \o <<" ">>, B, <<":", "1">>, <<":", "3">>}
UnitIdLabels == {A, B, C}

\* idManager.assignId(nodeLabel)
CallAssignId ==
    /\ calls < MaxUnitCalls
    /\ \E nodeLabel \in UnitIdLabels :
         \E r \in {assignId(IDM, nodeLabel)} :
             /\ nodeIdToNumber' = r.idm.nodeIdToNumber
             /\ numberToNodeId' = r.idm.numberToNodeId
             /\ nextId' = r.idm.nextId
             /\ Called("assignId", nodeLabel, Returned(r.ret))
    /\ UNCHANGED <<ui, build, nodes, nodeOrder, edges, detectedCommands, quotedStrings,
                   placeholderCounter, lineArrows>>

\* idManager.clear()
CallIDManagerClear ==
    /\ calls < MaxUnitCalls
    /\ nodeIdToNumber' = IDManager_clear(IDM).nodeIdToNumber
    /\ numberToNodeId' = IDManager_clear(IDM).numberToNodeId
    /\ nextId' = IDManager_clear(IDM).nextId
    /\ Called("clear", <<>>, Returned(Null))
    /\ UNCHANGED <<ui, build, nodes, nodeOrder, edges, detectedCommands, quotedStrings,
                   placeholderCounter, lineArrows>>

\* nodeBuilder.ensureNode(label)
CallEnsureNode ==
    /\ calls < MaxUnitCalls
    /\ \E label \in UnitLabels :
         \E r \in {ensureNodeOf(build, NB, IDM, label)} :
             /\ nodeIdToNumber' = r.idm.nodeIdToNumber
             /\ numberToNodeId' = r.idm.numberToNodeId
             /\ nextId' = r.idm.nextId
             /\ nodes' = r.nb.nodes
             /\ nodeOrder' = r.nb.nodeOrder
             /\ Called("ensureNode", label,
                       IF r.ret = Threw THEN Thrown ELSE Returned(r.ret))
    /\ UNCHANGED <<ui, build, edges, detectedCommands, quotedStrings,
                   placeholderCounter, lineArrows>>

\* nodeBuilder.clear()
NodeBuilder_clear(nb) == NewNodeBuilder

CallNodeBuilderClear ==
    /\ calls < MaxUnitCalls
    /\ nodes' = NodeBuilder_clear(NB).nodes
    /\ nodeOrder' = NodeBuilder_clear(NB).nodeOrder
    /\ Called("nodeBuilder.clear", <<>>, Returned(Null))
    /\ UNCHANGED <<ui, build, nodeIdToNumber, numberToNodeId, nextId, edges,
                   detectedCommands, quotedStrings, placeholderCounter, lineArrows>>

\* references: labels, numbers assigned or not, and remainders that are not
\* integers
UnitRefs ==
    { <<"A">>, <<":", "1">>, <<":", "9">>, <<":", "x">>, <<":", "1", "x">> }

\* idManager.resolveReference(ref)
CallResolveReference ==
    /\ calls < MaxUnitCalls
    /\ \E ref \in UnitRefs :
         \E r \in {resolveReference(IDM, ref)} :
             Called("resolveReference", ref, IF r = Threw THEN Thrown ELSE Returned(r))
    /\ UNCHANGED <<ui, build, nodeIdToNumber, numberToNodeId, nextId, nodes, nodeOrder,
                   edges, detectedCommands, quotedStrings, placeholderCounter,
                   lineArrows>>

NextUnits ==
    \/ CallAssignId \/ CallIDManagerClear \/ CallEnsureNode \/ CallNodeBuilderClear
    \/ CallResolveReference

SpecUnits == Init /\ [][NextUnits]_vars

-----------------------------------------------------------------------------
(* One parse on a new SyntaxManager, over a wide range of documents.        *)

\* every line of up to MaxLineLen characters made of two labels' letters and
\* the three characters arrows are made of
ArrowChars == {"A", "B", "-", "<", ">"}
ArrowLines == StringsUpTo(ArrowChars, MaxLineLen)

\* lines of two or three segments (possibly empty) separated by arrows of
\* every form
Segments == {<<>>, A, B, C}
ArrowTexts ==
    { <<"-", ">">>,
    <<" ", "-", ">", " ">>,
    <<"<", "-">>,
    <<"<", "-", ">">>,
    <<"-", "x", "-", ">">>,
    <<"<", "-", "x", "-", ">">>,
    <<" ", "-", "y", "e", "s", "-", ">", " ">> }
ChainLines ==
    {s1 \o a1 \o s2 : s1 \in Segments, a1 \in ArrowTexts, s2 \in Segments}
    \cup {s1 \o a1 \o s2 \o a2 \o s3 :
            s1 \in Segments, a1 \in ArrowTexts, s2 \in Segments,
            a2 \in ArrowTexts, s3 \in Segments}

\* labels that are, contain, or have nothing to do with a shape keyword
ShapeLabels ==
    { <<"c", "i", "r", "c", "l", "e">>,
    <<"C", "i", "r", "c", "l", "e">>,
    <<"C", "I", "R", "C", "L", "E">>,
    <<"c", "i", "r", "c", "l", "e", "s">>,
    <<"C", "i", "r", "c", "l", "e", " ", "T", "w", "o">>,
    <<"s", "q", "u", "a", "r", "e">>,
    <<"S", "q", "u", "a", "r", "e">>,
    <<"r", "e", "c", "t", "a", "n", "g", "l", "e">>,
    <<"d", "i", "a", "m", "o", "n", "d">>,
    <<"D", "I", "A", "M", "O", "N", "D">>,
    <<"s", "t", "a", "r">>,
    <<"c", "o", "n", "s", "t", "r", "u", "c", "t", "o", "r">>,
    <<"C", "o", "n", "s", "t", "r", "u", "c", "t", "o", "r">>,
    <<"_", "_", "p", "r", "o", "t", "o", "_", "_">> }
ShapeLines ==
    ShapeLabels
    \cup {<<" ">> \o l \o <<" ">> : l \in ShapeLabels}
    \cup {l \o <<"-", ">">> \o A : l \in ShapeLabels}

\* "content"->B for contents with a newline in them
QuotedContents ==
    { <<"a", "\n", "b">>,
    <<"A", "\n", "B">>,
    <<"l", "i", "n", "e", "1", "\n", "l", "i", "n", "e", "2">>,
    <<"a", "\n", "\n", "b">>,
    <<"a", "\n", "-", ">", "b">>,
    <<"a", "<", "-", "\n", "b">>,
    <<"a", "\n", "b", "\n", "c">>,
    <<" ", "a", "\n", "b">>,
    <<"a", "\n", "b", " ">>,
    <<"a", "\n", "@", "b">>,
    <<"\n">> }
QuotedLines == {<<Quote>> \o c \o <<Quote, "-", ">">> \o B : c \in QuotedContents}

\* documents that repeat an arrow line, or hold a self-loop
RepeatedLines ==
    { <<"A", "-", ">", "B", "\n", "A", "-", ">", "B">>,
      <<"A", "-", ">", "B", "\n", "A", "-", ">", "B", "\n", "A", "-", ">", "A">>,
      <<"A", "-", ">", "A", "\n", "A", "-", ">", "A">>,
      <<"A", "<", "-", ">", "B", "\n", "B", "-", ">", "A", "\n", "A", "<", "-", "B">>,
      <<"A", " ", "-", "x", "-", ">", " ", "B", "\n", "A", " ", "-", "x", "-", ">", " ", "B", "\n", "A", "-", ">", "B", "-", ">", "A", "-", ">", "B">> }

\* the largest number of quoted spans in one document
MaxSpans == 11

\* n lines, the i-th being the i-th letter in quotes
SpanDocument(n) == Join([i \in 1..n |-> <<Quote, LowerChars[i], Quote>>], "\n")
SpanDocuments == {SpanDocument(n) : n \in 2..MaxSpans}

\* lines with a quoted segment that is empty or blank
EmptyQuotedLines ==
    { <<"\"", "\"", " ", "-", ">", " ", "B">>,
      <<"\"", " ", "\"", "-", ">", "B">>,
      <<"A", "<", "-", "\"", "\"">>,
      <<"A", "\n", "\"", "\"">> }

OnceInputs ==
    ArrowLines \cup ChainLines \cup ShapeLines \cup QuotedLines \cup RepeatedLines
    \cup SpanDocuments \cup EmptyQuotedLines

\* the first syntaxManager.parse(text) of a session
ParseOnce ==
    /\ calls = 0
    /\ \E text \in OnceInputs : DoParse(text)

NextOnce == ParseOnce

SpecOnce == Init /\ [][NextOnce]_vars

-----------------------------------------------------------------------------
(* CommandHandler (src/parsers/CommandHandler.js): command execution, on the *)
(* nodes DiagramParser.getNodesAndEdges returns.  What a call does is the    *)
(* sequence of callbacks it invokes, [callback, args], and its return value. *)

\* layoutGraph(nodes, edges): the ReactFlow nodes (their position, which no
\* command reads, is left out)
layoutGraph(ns) ==
    [i \in 1..Len(ns) |->
        [id |-> ns[i].id,
         type |-> ns[i].type,
         data |-> [label |-> IF "label" \in DOMAIN ns[i] THEN ns[i].label ELSE Undefined,
                   numericId |-> IF "numericId" \in DOMAIN ns[i] THEN ns[i].numericId
                                 ELSE Undefined]]]

\* formattedEdges of getNodesAndEdges
formatEdges(es) ==
    [i \in 1..Len(es) |->
        [id |-> es[i].id, source |-> es[i].source, target |-> es[i].target,
         label |-> es[i].label,
         type |-> IF es[i].source = es[i].target THEN "selfLoop" ELSE "smoothstep",
         animated |-> FALSE]]

\* String.prototype.match of /<keyword>\s*(<class>+)/ on params: the group, or
\* Undefined; `outside' holds the positions of params outside the class
KeyValueAt(params, p, keyword, outside) ==
    Pick({ Pick({ IF MatchAt(params, p, keyword) /\ e >= s + 1
                  THEN SubSeq(params, s + 1, e)
                  ELSE Undefined
                  : e \in {ClassRunEnd(params, s + 1, outside)} })
           : s \in {ClassRunEnd(params, p + Len(keyword),
                                {i \in 1..Len(params) : ~IsWS(params[i])})} })

KeyValue(params, keyword, outside) ==
    Pick({ IF hits = {} THEN Undefined ELSE KeyValueAt(params, Min(hits), keyword, outside)
           : hits \in {{p \in 1..Len(params) :
                          KeyValueAt(params, p, keyword, outside) # Undefined}} })

\* [#\w]
IsStyleChar(c) == c = "#" \/ IsWordChar(c)

StyleEntry(key, value) == IF value = Undefined THEN EmptyMap ELSE key :> value

\* parseStyleParams(params): the styles object, as a function of its keys
parseStyleParams(params) ==
    Pick({ Pick({ Pick({ StyleEntry("backgroundColor", fillMatch)
                         @@ StyleEntry("borderColor", borderMatch)
                         @@ (IF widthMatch = Undefined THEN EmptyMap
                             ELSE "borderWidth" :> ParseInt(widthMatch, 0).val)
                         : widthMatch \in {KeyValue(params, <<"w", "i", "d", "t", "h", ":">>,
                              {i \in 1..Len(params) : PosIn(DigitChars, params[i]) = 0})} })
                  : borderMatch \in {KeyValue(params, <<"b", "o", "r", "d", "e", "r", ":">>,
                       {i \in 1..Len(params) : ~IsStyleChar(params[i])})} })
           : fillMatch \in {KeyValue(params, <<"f", "i", "l", "l", ":">>,
                {i \in 1..Len(params) : ~IsStyleChar(params[i])})} })

\* Array.prototype.find over the positions that satisfy the test
NotFound == [found |-> FALSE]
FindFirst(ns, hits) ==
    IF hits = {} THEN NotFound ELSE [found |-> TRUE, node |-> ns[Min(hits)]]

\* findNode(nodeId, nodes)
findNode(nodeId, ns) ==
    Pick({ IF StartsWith(nodeId, <<":">>) /\ ~nodeNumber.nan
           THEN FindFirst(ns, {i \in 1..Len(ns) :
                                 /\ "nodeNumber" \in DOMAIN ns[i].data
                                 /\ ns[i].data.nodeNumber = nodeNumber.val})
           ELSE FindFirst(ns, {i \in 1..Len(ns) :
                                 ToLowerCase(ns[i].id) = ToLowerCase(nodeId)})
           : nodeNumber \in {ParseInt(SubSeq(nodeId, 2, Len(nodeId)), 10)} })

\* one callback invocation, made only when the callback was supplied
Invoke(callbacks, name, args) ==
    IF name \in callbacks THEN <<[callback |-> name, args |-> args]>> ELSE <<>>

NotFoundMessage(id) == <<"N", "o", "d", "e", " ", "'">> \o id \o <<"'", " ", "n", "o", "t", " ", "f", "o", "u", "n", "d">>
NewLabelMessage == <<"N", "e", "w", " ", "l", "a", "b", "e", "l", " ", "i", "s", " ", "r", "e", "q", "u", "i", "r", "e", "d", " ", "f", "o", "r", " ", "r", "e", "n", "a", "m", "e", " ", "c", "o", "m", "m", "a", "n", "d">>

\* executeRenameCommand without the test of the new label
executeRenameCommandAnyLabel(command, ns, callbacks) ==
    Pick({ IF ~node.found
           THEN [value |-> FALSE,
                 callbacks |-> Invoke(callbacks, "onError", <<NotFoundMessage(command.oldId)>>)]
           ELSE [value |-> TRUE,
                 callbacks |-> Invoke(callbacks, "onRenameNode",
                                      <<node.node.id, command.newLabel>>)]
           : node \in {findNode(command.oldId, ns)} })

\* executeRenameCommand(command, nodes, callbacks)
executeRenameCommand(command, ns, callbacks) ==
    Pick({ IF ~node.found
           THEN [value |-> FALSE,
                 callbacks |-> Invoke(callbacks, "onError", <<NotFoundMessage(command.oldId)>>)]
           ELSE IF ~Truthy(command.newLabel)
           THEN [value |-> FALSE,
                 callbacks |-> Invoke(callbacks, "onError", <<NewLabelMessage>>)]
           ELSE [value |-> TRUE,
                 callbacks |-> Invoke(callbacks, "onRenameNode",
                                      <<node.node.id, command.newLabel>>)]
           : node \in {findNode(command.oldId, ns)} })

\* executeLayoutCommand(command, nodes, callbacks)
executeLayoutCommand(command, ns, callbacks) ==
    [value |-> TRUE,
     callbacks |-> Invoke(callbacks, "onApplyLayout", <<command.layoutType, ns>>)]

\* the styles part without the test for an empty styles object
applyStylesAlways(command, node, callbacks) ==
    IF Truthy(command.params) /\ "onApplyStyle" \in callbacks
    THEN Invoke(callbacks, "onApplyStyle", <<node.id, parseStyleParams(command.params)>>)
    ELSE <<>>

\* the styles part of executeStyleInspectorCommand
applyStyles(command, node, callbacks) ==
    IF Truthy(command.params) /\ "onApplyStyle" \in callbacks
    THEN Pick({ IF DOMAIN styles # {}
                THEN Invoke(callbacks, "onApplyStyle", <<node.id, styles>>)
                ELSE <<>>
                : styles \in {parseStyleParams(command.params)} })
    ELSE <<>>

\* executeStyleInspectorCommand that goes on when the node is not found
executeStyleInspectorCommandNoError(command, ns, callbacks) ==
    Pick({ IF ~node.found
           THEN [value |-> FALSE,
                 callbacks |-> Invoke(callbacks, "onOpenStyleInspector", <<Undefined>>)]
           ELSE [value |-> TRUE,
                 callbacks |-> Invoke(callbacks, "onSelectNode", <<node.node>>)
                               \o applyStyles(command, node.node, callbacks)
                               \o Invoke(callbacks, "onOpenStyleInspector", <<node.node>>)]
           : node \in {findNode(command.nodeId, ns)} })

\* executeStyleInspectorCommand(command, nodes, callbacks)
executeStyleInspectorCommand(command, ns, callbacks) ==
    Pick({ IF ~node.found
           THEN [value |-> FALSE,
                 callbacks |-> Invoke(callbacks, "onError", <<NotFoundMessage(command.nodeId)>>)]
           ELSE [value |-> TRUE,
                 callbacks |-> Invoke(callbacks, "onSelectNode", <<node.node>>)
                               \o applyStyles(command, node.node, callbacks)
                               \o Invoke(callbacks, "onOpenStyleInspector", <<node.node>>)]
           : node \in {findNode(command.nodeId, ns)} })

\* executeCommand(command, nodes, callbacks)
executeCommand(command, ns, callbacks) ==
    IF command.type = "rename" THEN executeRenameCommand(command, ns, callbacks)
    ELSE IF command.type = "layout" THEN executeLayoutCommand(command, ns, callbacks)
    ELSE IF command.type = "openStyleInspector"
         THEN executeStyleInspectorCommand(command, ns, callbacks)
    ELSE [value |-> FALSE, callbacks |-> <<>>]

\* the callbacks FlowDiagram supplies
FlowCallbacks ==
    {"onSelectNode", "onOpenStyleInspector", "onApplyStyle", "onRenameNode",
     "onApplyLayout", "onError"}

\* documents: a structural part followed by up to MaxCommandLines lines, most of
\* them commands
StructuralParts ==
    { <<"A", "-", ">", "B">>,
    <<"a", "\n", "A">>,
    <<"A">>,
    <<"l", "o", "g", "i", "n">>,
    <<>> }
CommandLineChoices ==
    { <<"@", "A">>,
    <<"@", "a", " ", "f", "i", "l", "l", ":", "#", "f">>,
    <<" ", "@", "A", "-", ">", "B", " ">>,
    <<"@", "A", " ", "w", "i", "d", "t", "h", ":", "2", " ", "b", "o", "r", "d", "e", "r", ":", "#", "0">>,
    <<"@", "A", " ", "f", "i", "l", "l", ":">>,
    <<"@", "Z">>,
    <<"@", ":", "1">>,
    <<"@", " ", "A">>,
    <<"=", "r", "e", "n", "a", "m", "e", "(", "A", ",", " ", "B", " ", "C", ")">>,
    <<"=", "r", "e", "n", "a", "m", "e", "(", "A", ")">>,
    <<"=", "r", "e", "n", "a", "m", "e", "(", "Z", ",", " ", "B", ")">>,
    <<"=", "r", "e", "n", "a", "m", "e", "(", ":", "1", ",", " ", "B", ")">>,
    <<"=", "r", "e", "n", "a", "m", "e", "(", "l", "o", "g", "i", "n", ",", " ", "L", "o", "g", "i", "n", " ", "P", "a", "g", "e", ")">>,
    <<"=", "l", "a", "y", "o", "u", "t", "(", "x", ")">>,
    <<"=", "l", "a", "y", "o", "u", "t", "(", ")">>,
    <<"=", "f", "o", "o", "(", "x", ")">>,
    <<"C">> }
MaxCommandLines == 2
CommandTails ==
    UNION {[1..k -> CommandLineChoices] : k \in 0..MaxCommandLines}
ExecInputs ==
    {Join(<<s>> \o t, "\n") : s \in StructuralParts, t \in CommandTails}
    \cup {Join(<<c, s>>, "\n") : s \in StructuralParts, c \in CommandLineChoices}

\* diagramParser.getNodesAndEdges(input), the first of a session
GetNodesAndEdges ==
    /\ calls = 0
    /\ \E text \in ExecInputs : \E r \in {parse(build, IDM, text)} :
        /\ nodeIdToNumber' = r.idm.nodeIdToNumber
        /\ numberToNodeId' = r.idm.numberToNodeId
        /\ nextId' = r.idm.nextId
        /\ nodes' = r.nb.nodes
        /\ nodeOrder' = r.nb.nodeOrder
        /\ edges' = r.edges
        /\ detectedCommands' = r.commands
        /\ quotedStrings' = r.quotedStrings
        /\ placeholderCounter' = r.placeholderCounter
        /\ lineArrows' = r.lineArrows
        /\ Called("getNodesAndEdges", text,
                  IF r.threw THEN Thrown
                  ELSE Returned([nodes |-> layoutGraph(getNodes(r.nb)),
                                 edges |-> formatEdges(r.edges),
                                 commands |-> r.commands]))
        /\ UNCHANGED <<ui, build, ui>>

\* a batch that is given up at the first command that fails
ExecuteCommandUntilFailure ==
    /\ calls >= 1
    /\ history[1].op = "getNodesAndEdges" /\ ~history[1].ret.threw
    /\ calls <= Len(detectedCommands)
    /\ calls >= 2 => history[calls].ret.value
    /\ \E r \in {executeCommand(detectedCommands[calls], history[1].ret.value.nodes,
                                FlowCallbacks)} :
         Called("executeCommand", detectedCommands[calls],
                [threw |-> FALSE, value |-> r.value, callbacks |-> r.callbacks])
    /\ UNCHANGED <<ui, build, nodeIdToNumber, numberToNodeId, nextId, nodes, nodeOrder,
                   edges, detectedCommands, quotedStrings, placeholderCounter,
                   lineArrows>>

\* commandHandler.executeCommand(command, nodes, callbacks) for the next command
\* of the batch, in the order of newCommands.forEach
ExecuteCommand ==
    /\ calls >= 1
    /\ history[1].op = "getNodesAndEdges" /\ ~history[1].ret.threw
    /\ calls <= Len(detectedCommands)
    /\ \E r \in {executeCommand(detectedCommands[calls], history[1].ret.value.nodes,
                                FlowCallbacks)} :
         Called("executeCommand", detectedCommands[calls],
                [threw |-> FALSE, value |-> r.value, callbacks |-> r.callbacks])
    /\ UNCHANGED <<ui, build, nodeIdToNumber, numberToNodeId, nextId, nodes, nodeOrder,
                   edges, detectedCommands, quotedStrings, placeholderCounter,
                   lineArrows>>

NextExec == GetNodesAndEdges \/ ExecuteCommand

SpecExec == Init /\ [][NextExec]_vars

-----------------------------------------------------------------------------
(* TrustQueryDraw.scan and clearDiagram (part_007), ReactFlowHandler.render- *)
(* Nodes and the two effects of FlowDiagram that follow a render: the       *)
(* initialNodes effect and the command effect.  After a render React runs   *)
(* both effects with the nodes state of that render, then renders again     *)
(* with the state the queued setNodes calls produce.                        *)

\* the updater of the initialNodes effect: setNodes(currentNodes => ...); a node
\* new to the diagram gets defaultStyles and the fontSize of nodeDefaults
mergeNodes(currentNodes, initialNodes) ==
    [i \in 1..Len(initialNodes) |->
        [id |-> initialNodes[i].id,
         type |-> initialNodes[i].type,
         data |-> [label |-> initialNodes[i].data.label,
                   numericId |-> initialNodes[i].data.numericId,
                   styleOverrides |->
                     Pick({ IF existing = {}
                            THEN "backgroundColor" :> <<"#", "f", "f", "f", "f", "f", "f">>
                                 @@ "borderColor" :> <<"#", "0", "0", "0", "0", "0", "0">>
                                 @@ "borderWidth" :> 1
                                 @@ "fontSize" :> <<"1", "2", "p", "x">>
                            ELSE IF "styleOverrides" \in DOMAIN currentNodes[Min(existing)].data
                            THEN currentNodes[Min(existing)].data.styleOverrides
                            ELSE EmptyMap
                            : existing \in {{j \in 1..Len(currentNodes) :
                                               currentNodes[j].id = initialNodes[i].id}} })]]]

\* the setNodes updater of one callback invocation (onRenameNode, onApplyStyle);
\* the other callbacks set no nodes
applyCallback(ns, cb) ==
    IF cb.callback = "onRenameNode"
    THEN [i \in 1..Len(ns) |->
            IF ns[i].id = cb.args[1] THEN [ns[i] EXCEPT !.data.label = cb.args[2]]
            ELSE ns[i]]
    ELSE IF cb.callback = "onApplyStyle"
    THEN [i \in 1..Len(ns) |->
            IF ns[i].id = cb.args[1]
            THEN [ns[i] EXCEPT !.data.styleOverrides = cb.args[2] @@ @]
            ELSE ns[i]]
    ELSE ns

RECURSIVE applyCallbacks(_, _, _)
applyCallbacks(ns, cbs, i) ==
    IF i > Len(cbs) THEN ns
    ELSE applyCallbacks(applyCallback(ns, cbs[i]), cbs, i + 1)

\* commands.filter(cmd => !prev.some(p => JSON.stringify(p) === JSON.stringify(cmd)))
RECURSIVE newCommandsOf(_, _, _)
newCommandsOf(commands, prev, i) ==
    IF i > Len(commands) THEN <<>>
    ELSE (IF \E j \in 1..Len(prev) : prev[j] = commands[i] THEN <<>> ELSE <<commands[i]>>)
         \o newCommandsOf(commands, prev, i + 1)

\* newCommands.forEach(command => commandHandler.executeCommand(command, nodes, ...)):
\* what was executed, on which nodes, and the callbacks invoked, in order
RECURSIVE executeAll(_, _, _)
executeAll(newCommands, ns, i) ==
    IF i > Len(newCommands) THEN [executed |-> <<>>, callbacks |-> <<>>]
    ELSE Pick({ Pick({ [executed |-> <<[command |-> newCommands[i],
                                         nodeIds |-> [j \in 1..Len(ns) |-> ns[j].id],
                                         value |-> r.value]>> \o rest.executed,
                        callbacks |-> r.callbacks \o rest.callbacks]
                       : rest \in {executeAll(newCommands, ns, i + 1)} })
                : r \in {executeCommand(newCommands[i], ns, FlowCallbacks)} })

\* the command effect, run with the nodes of the render it follows
commandEffect(prev, commands, ns) ==
    IF Len(commands) > 0 /\ Len(ns) > 0
    THEN Pick({ IF Len(newCommands) = 0
                THEN [prevCommands |-> prev, executed |-> <<>>, callbacks |-> <<>>]
                ELSE Pick({ [prevCommands |-> commands, executed |-> done.executed,
                             callbacks |-> done.callbacks]
                            : done \in {executeAll(newCommands, ns, 1)} })
                : newCommands \in {newCommandsOf(commands, prev, 1)} })
    ELSE [prevCommands |-> prev, executed |-> <<>>, callbacks |-> <<>>]

\* drawHandler.renderNodes(nodes, edges, mode, commands) and the effects it
\* sets off.  On the first render useNodesState(initialNodes) is the state.
\* The second render has the state made by the updaters the first one queued,
\* and runs the command effect again because nodes has changed.
renderNodes(fd, initialNodes, commands) ==
    Pick({ Pick({ Pick({ Pick({ [diagramHistory |-> fd.diagramHistory, mounted |-> TRUE,
                                 flowNodes |-> applyCallbacks(ns, second.callbacks, 1),
                                 prevCommands |-> second.prevCommands,
                                 executed |-> fd.executed \o first.executed
                                              \o second.executed]
                                : second \in {commandEffect(first.prevCommands, commands, ns)} })
                         : ns \in {applyCallbacks(mergeNodes(current, initialNodes),
                                                  first.callbacks, 1)} })
                  : first \in {commandEffect(fd.prevCommands, commands, current)} })
           : current \in {IF fd.mounted THEN fd.flowNodes ELSE initialNodes} })

\* what is typed before Enter
ScanTexts ==
    { <<"A", "-", ">", "B">>,
      <<"X", "\n", "@", "X">>,
      <<"@", "A">>,
      <<"@", "X">>,
      <<":", "9", "-", ">", "A">>,
      <<"B">>,
      <<"=", "r", "e", "n", "a", "m", "e", "(", "A", ",", " ", "B", " ", "C", ")">>,
      <<"@", "A", " ", "f", "i", "l", "l", ":", "#", "f">>,
      <<>> }

MaxScans == 3

\* scan() in hybrid mode with the textarea holding text; the trimmed text is
\* pushed on diagramHistory first, when it is not empty
Scan ==
    /\ calls < MaxScans
    /\ \E text \in ScanTexts : \E fd \in {IF Len(Trim(text)) > 0
                                       THEN [ui EXCEPT !.diagramHistory = Append(@, Trim(text))]
                                       ELSE ui} :
         IF Len(Join(fd.diagramHistory, "\n")) = 0
         THEN /\ ui' = renderNodes(fd, <<>>, <<>>)
              /\ Called("scan", text, Returned([error |-> FALSE, nodes |-> <<>>,
                                                commands |-> <<>>]))
              /\ UNCHANGED <<build, nodeIdToNumber, numberToNodeId, nextId, nodes,
                             nodeOrder, edges, detectedCommands, quotedStrings,
                             placeholderCounter, lineArrows>>
         ELSE \E r \in {parse(build, IDM, Join(fd.diagramHistory, "\n"))} :
              /\ nodeIdToNumber' = r.idm.nodeIdToNumber
              /\ numberToNodeId' = r.idm.numberToNodeId
              /\ nextId' = r.idm.nextId
              /\ nodes' = r.nb.nodes
              /\ nodeOrder' = r.nb.nodeOrder
              /\ edges' = r.edges
              /\ detectedCommands' = r.commands
              /\ quotedStrings' = r.quotedStrings
              /\ placeholderCounter' = r.placeholderCounter
              /\ lineArrows' = r.lineArrows
              /\ ui' = IF r.threw THEN fd
                       ELSE renderNodes(fd, layoutGraph(getNodes(r.nb)), r.commands)
              /\ Called("scan", text,
                        Returned(IF r.threw
                                 THEN [error |-> TRUE, nodes |-> <<>>, commands |-> <<>>]
                                 ELSE [error |-> FALSE,
                                       nodes |-> layoutGraph(getNodes(r.nb)),
                                       commands |-> r.commands]))
              /\ UNCHANGED build

\* clearDiagram()
ClearDiagram ==
    /\ calls < MaxScans
    /\ nodeIdToNumber' = IDManager_clear(IDM).nodeIdToNumber
    /\ numberToNodeId' = IDManager_clear(IDM).numberToNodeId
    /\ nextId' = IDManager_clear(IDM).nextId
    /\ ui' = renderNodes([ui EXCEPT !.diagramHistory = <<>>], <<>>, <<>>)
    /\ Called("clearDiagram", <<>>, Returned(Null))
    /\ UNCHANGED <<build, nodes, nodeOrder, edges, detectedCommands, quotedStrings,
                   placeholderCounter, lineArrows>>

NextSession == Scan \/ ClearDiagram

SpecSession == Init /\ [][NextSession]_vars

-----------------------------------------------------------------------------
(* Properties *)

IDMUnchanged ==
    /\ nodeIdToNumber' = nodeIdToNumber
    /\ numberToNodeId' = numberToNodeId
    /\ nextId' = nextId

NodesUnchanged == nodes' = nodes /\ nodeOrder' = nodeOrder

\* the labels a parse result lists, and the number it reports for one of them
ResultLabels(r) == {r.value.nodes[i].id : i \in 1..Len(r.value.nodes)}
ResultNumber(r, l) ==
    NodeNumberOf(r.value.nodes[CHOOSE i \in 1..Len(r.value.nodes) : r.value.nodes[i].id = l])

AB == A \o NL \o B
ABC == A \o NL \o B \o NL \o C

\* C1, step: a parse keeps every label-to-number mapping it finds, reports each
\* node with the number its label is mapped to, and numbers the labels it sees
\* for the first time nextId, nextId + 1, ... in order of first appearance.
C1_Step ==
    op' = "parse" =>
      /\ \A l \in DOMAIN nodeIdToNumber :
           l \in DOMAIN nodeIdToNumber' /\ nodeIdToNumber'[l] = nodeIdToNumber[l]
      /\ \A l \in DOMAIN nodes' :
           l \in DOMAIN nodeIdToNumber' /\ NodeNumberOf(nodes'[l]) = nodeIdToNumber'[l]
      /\ {nodeIdToNumber'[l] : l \in DOMAIN nodeIdToNumber' \ DOMAIN nodeIdToNumber}
           = nextId .. (nextId' - 1)
      /\ \A i, j \in 1..Len(nodeOrder') :
           (i < j /\ nodeOrder'[i] \notin DOMAIN nodeIdToNumber
                  /\ nodeOrder'[j] \notin DOMAIN nodeIdToNumber)
           => nodeIdToNumber'[nodeOrder'[i]] < nodeIdToNumber'[nodeOrder'[j]]

\* C1, across parses: with no clearIDMappings in between, a label reported with a
\* number by one parse is reported with the same number by every later parse
\* that lists it (parse of A,B then of A,B,C gives A=1, B=2, C=3).
C1_Across ==
    \A i, j \in 1..calls :
      (/\ i < j
       /\ \A k \in i..j : history[k].op = "parse"
       /\ ~history[i].ret.threw /\ ~history[j].ret.threw)
      => \A l \in ResultLabels(history[i].ret) \cap ResultLabels(history[j].ret) :
           ResultNumber(history[j].ret, l) = ResultNumber(history[i].ret, l)

\* C1: numeric ids are stable across re-parses and new labels get the next unused
\* integers; parse never removes or changes an existing label-to-id mapping.
C1_NumericIdStability == [][C1_Step]_vars /\ []C1_Across

\* C1 witness: parse of A,B and then of A,B,C reports A=1, B=2, C=3
C1_Witness ==
    /\ calls = 2
    /\ history[1].op = "parse" /\ history[1].input = AB
    /\ history[2].op = "parse" /\ history[2].input = ABC
    /\ ~ret.threw
    /\ ResultNumber(ret, A) = 1 /\ ResultNumber(ret, B) = 2 /\ ResultNumber(ret, C) = 3

NoDuplicates(seq) == \A i, j \in 1..Len(seq) : seq[i] = seq[j] => i = j

\* C2, registry: one node per label, each label once in nodeOrder
C2_Registry ==
    /\ NoDuplicates(nodeOrder)
    /\ DOMAIN nodes = {nodeOrder[i] : i \in 1..Len(nodeOrder)}
    /\ \A l \in DOMAIN nodes : nodes[l].id = l

\* C2, step: ensureNode returns a registered label; when that label was already
\* registered the call changes neither the registry nor the id mapping, and
\* otherwise it appends that one label; a second call in a row with a label equal
\* after trimming returns what the first returned and changes nothing.
C2_Step ==
    (op' = "ensureNode" /\ ~ret'.threw) =>
      /\ ret'.value \in DOMAIN nodes'
      /\ ret'.value \in DOMAIN nodes => (NodesUnchanged /\ IDMUnchanged)
      /\ ret'.value \notin DOMAIN nodes => nodeOrder' = Append(nodeOrder, ret'.value)
      /\ ~StartsWith(Trim(input'), <<":">>) => ret'.value = Trim(input')
      /\ (op = "ensureNode" /\ ~ret.threw /\ Trim(input') = Trim(input))
           => (ret'.value = ret.value /\ NodesUnchanged /\ IDMUnchanged)

\* C2: ensureNode is idempotent per trimmed label: the second call adds no node
\* and assigns no id, the registry holds one node per label and nodeOrder lists
\* each label once.
C2_EnsureNodeIdempotent == []C2_Registry /\ [][C2_Step]_vars

\* C2 witness: ensureNode("A") followed by ensureNode(" A ")
C2_Witness ==
    /\ calls >= 2
    /\ history[calls - 1].op = "ensureNode" /\ history[calls - 1].input = A
    /\ op = "ensureNode" /\ input = <<" ">> \o A \o <<" ">>
    /\ ~ret.threw /\ ret.value = A
    /\ nodeOrder = <<A>>

\* C3, maps: the two maps are inverse bijections and the ids are 1..nextId-1
C3_Maps ==
    /\ DOMAIN numberToNodeId = 1..(nextId - 1)
    /\ {nodeIdToNumber[l] : l \in DOMAIN nodeIdToNumber} = 1..(nextId - 1)
    /\ \A l \in DOMAIN nodeIdToNumber : numberToNodeId[nodeIdToNumber[l]] = l
    /\ \A n \in DOMAIN numberToNodeId :
         numberToNodeId[n] \in DOMAIN nodeIdToNumber
         /\ nodeIdToNumber[numberToNodeId[n]] = n
    /\ \A l, m \in DOMAIN nodeIdToNumber : nodeIdToNumber[l] = nodeIdToNumber[m] => l = m

\* C3, step: assignId of a mapped label returns its id and changes nothing, of a
\* new label returns nextId and maps it; clear empties the maps and resets nextId
C3_Step ==
    /\ (op' = "assignId" /\ input' \in DOMAIN nodeIdToNumber)
         => (ret'.value = nodeIdToNumber[input'] /\ IDMUnchanged)
    /\ (op' = "assignId" /\ input' \notin DOMAIN nodeIdToNumber)
         => /\ ret'.value = nextId
            /\ nextId' = nextId + 1
            /\ nodeIdToNumber' = MapSet(nodeIdToNumber, input', nextId)
            /\ numberToNodeId' = MapSet(numberToNodeId, nextId, input')
    /\ op' = "clear"
         => (nodeIdToNumber' = EmptyMap /\ numberToNodeId' = EmptyMap /\ nextId' = 1)

\* C3: after any assignId and clear calls the maps are inverse bijections over
\* the ids 1..nextId-1, assignId is idempotent, clear resets both maps and nextId.
C3_IdMapsBijective == []C3_Maps /\ [][C3_Step]_vars

\* C3 witness: A and B are mapped and assignId(A) is called again
C3_Witness ==
    /\ calls >= 3
    /\ history[calls - 1].op = "assignId" /\ history[calls - 1].input = B
    /\ op = "assignId" /\ input = A /\ ret.value = 1
    /\ nextId = 3 /\ nodeIdToNumber[B] = 2

\* the edges as (source, target, label) triples, in creation order
EdgeTriples(es) == [i \in 1..Len(es) |-> <<es[i].source, es[i].target, es[i].label>>]

\* a finished parse of a one-line document with n arrows and n + 1 labels, none
\* of them quoted
OneLineParsed(n) ==
    /\ op = "parse" /\ ~ret.threw
    /\ quotedStrings = <<>>
    /\ Len(lineArrows) = 1
    /\ Len(lineArrows[1].arrows) = n
    /\ Len(lineArrows[1].nodeLabels) = n + 1

Labels == Segments \ {<<>>}
X == <<"x">>
Yes == <<"y", "e", "s">>

\* C4: a line with one bidirectional arrow between two labels, plain (A<->B) or
\* labelled (A<-x->B), yields exactly two edges, (A,B) then (B,A), both carrying
\* the arrow's label (null when the arrow is plain).
C4_BidirectionalTwoEdges ==
    /\ (OneLineParsed(1) /\ lineArrows[1].arrows[1].direction = "bidirectional")
         => EdgeTriples(edges) =
              << <<lineArrows[1].nodeLabels[1], lineArrows[1].nodeLabels[2],
                   lineArrows[1].arrows[1].edgeLabel>>,
                 <<lineArrows[1].nodeLabels[2], lineArrows[1].nodeLabels[1],
                   lineArrows[1].arrows[1].edgeLabel>> >>
    /\ \A l, r \in Labels :
         /\ (op = "parse" /\ input = l \o <<"<", "-", ">">> \o r)
              => EdgeTriples(edges) = << <<l, r, Null>>, <<r, l, Null>> >>
         /\ (op = "parse" /\ input = l \o <<"<", "-", "x", "-", ">">> \o r)
              => EdgeTriples(edges) = << <<l, r, X>>, <<r, l, X>> >>

\* C4 witness: A<-x->B parsed into two edges labelled x
C4_Witness ==
    /\ op = "parse" /\ input = A \o <<"<", "-", "x", "-", ">">> \o B
    /\ Len(edges) = 2
    /\ edges[1].source = A /\ edges[2].source = B /\ edges[2].label = X

\* C5: a line A<-B with one backward arrow yields exactly one edge, from the
\* right-hand label B to the left-hand label A, and the nodes are registered in
\* textual order, A then B.
C5_BackwardArrowReversed ==
    /\ (OneLineParsed(1) /\ lineArrows[1].arrows[1].direction = "backward")
         => /\ EdgeTriples(edges) =
                 << <<lineArrows[1].nodeLabels[2], lineArrows[1].nodeLabels[1], Null>> >>
            /\ nodeOrder = IF lineArrows[1].nodeLabels[1] = lineArrows[1].nodeLabels[2]
                           THEN <<lineArrows[1].nodeLabels[1]>>
                           ELSE lineArrows[1].nodeLabels
    /\ \A l, r \in Labels :
         (op = "parse" /\ input = l \o <<"<", "-">> \o r /\ l # r)
           => /\ EdgeTriples(edges) = << <<r, l, Null>> >>
              /\ nodeOrder = <<l, r>>
              /\ [i \in 1..Len(ret.value.nodes) |-> ret.value.nodes[i].id] = <<l, r>>

\* C5 witness: A<-B parsed into the edge from B to A, nodes A then B
C5_Witness ==
    /\ op = "parse" /\ input = A \o <<"<", "-">> \o B
    /\ Len(edges) = 1 /\ edges[1].source = B /\ edges[1].target = A
    /\ nodeOrder = <<A, B>>

\* the edges arrow a makes between the label on its left and the one on its right
TriplesOf(a, l, r) ==
    IF a.direction = "forward" THEN << <<l, r, a.edgeLabel>> >>
    ELSE IF a.direction = "backward" THEN << <<r, l, a.edgeLabel>> >>
    ELSE << <<l, r, a.edgeLabel>>, <<r, l, a.edgeLabel>> >>

RECURSIVE TriplesFrom(_, _, _)
TriplesFrom(arrows, labels, i) ==
    IF i > Len(arrows) THEN <<>>
    ELSE TriplesOf(arrows[i], labels[i], labels[i + 1]) \o TriplesFrom(arrows, labels, i + 1)

AYesBC == A \o <<" ", "-">> \o Yes \o <<"-", ">", " ">> \o B \o <<" ", "-", ">", " ">> \o C

\* C6: for a line with N arrows separating N+1 non-empty labels the edges are
\* created in arrow order, arrow i joining label i and label i+1 with its own
\* direction and label; 'A -yes-> B -> C' yields (A,B,yes) and (B,C,null).
C6_EdgesInArrowOrder ==
    /\ \A n \in 1..Len(input) :
         OneLineParsed(n)
           => EdgeTriples(edges) =
                TriplesFrom(lineArrows[1].arrows, lineArrows[1].nodeLabels, 1)
    /\ (op = "parse" /\ input = AYesBC)
         => EdgeTriples(edges) = << <<A, B, Yes>>, <<B, C, Null>> >>

\* C6 witness: 'A -yes-> B -> C' parsed into two edges
C6_Witness ==
    /\ op = "parse" /\ input = AYesBC
    /\ OneLineParsed(2)
    /\ Len(edges) = 2 /\ edges[1].label = Yes /\ edges[2].source = B

\* the arrow forms in the order of their precedence:
\* 1 <-label->, 2 <->, 3 -label->, 4 ->, 5 <-
IsForm(f, s) ==
    IF f = 1 THEN /\ Len(s) >= 5
                  /\ SubSeq(s, 1, 2) = <<"<", "-">>
                  /\ SubSeq(s, Len(s) - 1, Len(s)) = <<"-", ">">>
                  /\ \A k \in 3..(Len(s) - 2) : s[k] \notin {"<", ">"}
    ELSE IF f = 2 THEN s = <<"<", "-", ">">>
    ELSE IF f = 3 THEN /\ Len(s) >= 4
                       /\ s[1] = "-"
                       /\ SubSeq(s, Len(s) - 1, Len(s)) = <<"-", ">">>
                       /\ \A k \in 2..(Len(s) - 2) : s[k] \notin {"-", "<", ">"}
    ELSE IF f = 4 THEN s = <<"-", ">">>
    ELSE s = <<"<", "-">>

Forms == 1..5

\* the forms an arrow starting at position p of line can take
FormsAt(line, p) == {f \in Forms : \E e \in p..Len(line) : IsForm(f, SubSeq(line, p, e))}

DirectionOf(f) ==
    IF f \in {1, 2} THEN "bidirectional" ELSE IF f \in {3, 4} THEN "forward" ELSE "backward"

LabelOf(f, s) ==
    IF f = 1 THEN Trim(SubSeq(s, 3, Len(s) - 2))
    ELSE IF f = 3 THEN Trim(SubSeq(s, 2, Len(s) - 2))
    ELSE Null

\* where arrow i of as may start looking, and where it ends (1-based)
ArrowEnd(as, i) == IF i = 0 THEN 0 ELSE as[i].index + as[i].length

\* arrow i of line is the arrow of the highest-precedence form at its position,
\* and no arrow of any form starts between the previous arrow and it
ArrowChosen(line, as, i) ==
    /\ ArrowEnd(as, i - 1) <= as[i].index
    /\ as[i].raw = SubSeq(line, as[i].index + 1, ArrowEnd(as, i))
    /\ FormsAt(line, as[i].index + 1) # {}
    /\ IsForm(Min(FormsAt(line, as[i].index + 1)), as[i].raw)
    /\ as[i].direction = DirectionOf(Min(FormsAt(line, as[i].index + 1)))
    /\ as[i].edgeLabel = LabelOf(Min(FormsAt(line, as[i].index + 1)), as[i].raw)
    /\ \A q \in (ArrowEnd(as, i - 1) + 1)..as[i].index : FormsAt(line, q) = {}

ArrowsChosen(line, as) ==
    /\ \A i \in 1..Len(as) : ArrowChosen(line, as, i)
    /\ \A q \in (ArrowEnd(as, Len(as)) + 1)..Len(line) : FormsAt(line, q) = {}

AxB == A \o <<"<", "-", "x", "-", ">">> \o B

\* C7: findArrows returns the arrows of a line left to right and non-overlapping
\* and, where several forms could start at one position, takes <-label->, then
\* <->, then -label->, then ->, then <-; 'A<-x->B' is one bidirectional arrow
\* labelled x and 'A<->B' one bidirectional arrow.
C7_ArrowPrecedence ==
    /\ \A k \in 1..Len(lineArrows) : ArrowsChosen(lineArrows[k].line, lineArrows[k].arrows)
    /\ (op = "parse" /\ input = AxB)
         => /\ Len(lineArrows[1].arrows) = 1
            /\ lineArrows[1].arrows[1].direction = "bidirectional"
            /\ lineArrows[1].arrows[1].edgeLabel = X
    /\ (op = "parse" /\ input = A \o <<"<", "-", ">">> \o B)
         => /\ Len(lineArrows[1].arrows) = 1
            /\ lineArrows[1].arrows[1].direction = "bidirectional"
            /\ lineArrows[1].arrows[1].edgeLabel = Null

\* C7 witness: 'A<-x->B' read as one arrow of seven characters' line
C7_Witness ==
    /\ op = "parse" /\ input = AxB
    /\ Len(lineArrows) = 1 /\ Len(lineArrows[1].arrows) = 1
    /\ lineArrows[1].arrows[1].raw = <<"<", "-", "x", "-", ">">>
    /\ FormsAt(lineArrows[1].line, 2) = {1, 5}

\* C8: "content"->B, content holding a newline, yields the node labelled exactly
\* content (newline kept, quotes removed), the node B and one edge from the
\* former to B; the newline does not split the input into two lines.
C8_QuotedNewlineLabel ==
    \A c \in QuotedContents :
      (op = "parse" /\ input = <<Quote>> \o c \o <<Quote, "-", ">">> \o B)
        => /\ ~ret.threw
           /\ Len(lineArrows) = 1
           /\ nodeOrder = <<c, B>>
           /\ EdgeTriples(edges) = << <<c, B, Null>> >>

ShapeKeywordSet == {circle, square, rectangle, diamond}

\* C9: a node's type is the keyword when its whole trimmed label equals, case
\* aside, one of circle, square, rectangle, diamond, and is 'rectangle' for
\* every other label ('circles', 'Circle Two', ...).
C9_ShapeTypeByWholeLabel ==
    \A l \in DOMAIN nodes :
      nodes[l].type = IF ToLowerCase(l) \in ShapeKeywordSet THEN ToLowerCase(l)
                      ELSE rectangle

\* the reference text of number n
RefText(n) == <<":">> \o NumberToString(n)

\* the segments of a parsed line: its labels, or the line itself without arrows
SegmentsOf(rec) == IF Len(rec.arrows) = 0 THEN <<rec.line>> ELSE rec.nodeLabels

\* C10, step: a parse of a line with the segment ':N', N mapped to label L before
\* the parse, registers the node L, registers no node ':N', and ends no edge
\* at ':N'.
C10_Step ==
    op' = "parse" =>
      \A n \in DOMAIN numberToNodeId :
        (\E k \in 1..Len(lineArrows') : \E j \in 1..Len(SegmentsOf(lineArrows'[k])) :
            SegmentsOf(lineArrows'[k])[j] = RefText(n))
        => /\ numberToNodeId[n] \in DOMAIN nodes'
           /\ RefText(n) \notin DOMAIN nodes'
           /\ \A i \in 1..Len(edges') :
                edges'[i].source # RefText(n) /\ edges'[i].target # RefText(n)

\* C10: once a parse has given number N to label L, a later line with the
\* segment ':N' produces a node and an edge endpoint labelled L and no node
\* labelled ':N'.
C10_ReferenceResolved == [][C10_Step]_vars

\* the structural lines of a document, and the segments of one line
InputLines(text) == TrimAndFilter(Split(text, "\n"))
LineSegments(line) ==
    IF Len(findArrows(line)) = 0 THEN <<line>>
    ELSE extractNodeLabels(line, findArrows(line))

\* s is a reference ':N'; s is one to which no label is mapped after the step
IsRef(s) ==
    /\ Len(s) >= 2 /\ s[1] = ":"
    /\ \A i \in 2..Len(s) : s[i] \in {DigitChars[d] : d \in 1..Len(DigitChars)}
Unresolved(s) == IsRef(s) /\ \A n \in DOMAIN numberToNodeId' : RefText(n) # s
HasUnresolved(line) ==
    \E j \in 1..Len(LineSegments(line)) : Unresolved(LineSegments(line)[j])

PlainLabels == {A, B, C, D}

\* C11, step: when a line of the parsed document has a segment ':N' with no label
\* mapped to N, the parse still returns, the plain-label lines of the document
\* are registered and returned as nodes, and no node and no edge endpoint is the
\* unresolved reference.
C11_Step ==
    (op' = "parse" /\ \E k \in 1..Len(InputLines(input')) :
                         HasUnresolved(InputLines(input')[k]))
    => /\ ~ret'.threw
       /\ \A k \in 1..Len(InputLines(input')) :
            InputLines(input')[k] \in PlainLabels
            => InputLines(input')[k] \in DOMAIN nodes'
       /\ \A l \in DOMAIN nodes' : ~Unresolved(l)
       /\ \A i \in 1..Len(edges') :
            ~Unresolved(edges'[i].source) /\ ~Unresolved(edges'[i].target)

\* C11: an unresolved ':N' fails its own line only: the other lines of the same
\* input still yield their nodes and edges and nothing is created for ':N'.
C11_UnresolvedConfinedToLine == [][C11_Step]_vars

\* a line that after trimming is '@' followed by a non-blank character
IsAtLine(line) == Len(Trim(line)) >= 2 /\ Trim(line)[1] = "@" /\ ~IsWS(Trim(line)[2])
NotAtLine(line) == ~IsAtLine(line)

\* the document without its @ lines
DeleteAtLines(text) == Join(SelectSeq(Split(text, "\n"), NotAtLine), "\n")

IsStyleInspectorCommand(c) == c.type = "openStyleInspector"

\* the document of the session's first call
FirstInput == history[1].input

AtLineDocument == <<"A", "-", ">", "B", "\n", " ", "@", "A", "-", ">", "B", " ">>

Login == <<"l", "o", "g", "i", "n">>
LoginPage == <<"L", "o", "g", "i", "n", " ", "P", "a", "g", "e">>
RenameDocument == <<"l", "o", "g", "i", "n", "\n", "=", "r", "e", "n", "a", "m", "e", "(", "l", "o", "g", "i", "n", ",", " ", "L", "o", "g", "i", "n", " ", "P", "a", "g", "e", ")">>

NotRenameLine(line) == detectCommand(line).type # "rename"

\* the document without its rename lines
DeleteRenameLines(text) == Join(SelectSeq(Split(text, "\n"), NotRenameLine), "\n")

\* C13, extraction: the registries after a parse are those of the input without
\* its rename lines; 'login' with '=rename(login, Login Page)' leaves the one
\* node login, numbered 1, and no node 'Login Page'
C13_Extraction ==
    calls >= 1 =>
      /\ \E r \in {parse(build, NewIDManager, DeleteRenameLines(FirstInput))} :
           /\ nodes = r.nb.nodes /\ nodeOrder = r.nb.nodeOrder
           /\ IDM = r.idm
      /\ FirstInput = RenameDocument
           => /\ nodeOrder = <<Login>>
              /\ NodeNumberOf(nodes[Login]) = 1
              /\ LoginPage \notin DOMAIN nodes
              /\ nodeIdToNumber = (Login :> 1)

\* C13, execution: executing a rename command leaves the registries as they are
\* and invokes at most onRenameNode or onError
C13_Execution ==
    (op' = "executeCommand" /\ input'.type = "rename")
    => /\ NodesUnchanged /\ IDMUnchanged /\ edges' = edges
       /\ \A i \in 1..Len(ret'.callbacks) :
            ret'.callbacks[i].callback \in {"onRenameNode", "onError"}

\* C13: a Rename command changes neither the Node Registry nor the Identifier
\* Manager, at extraction or at execution; executeRenameCommand only calls
\* onRenameNode or onError.
C13_RenameFrame == []C13_Extraction /\ [][C13_Execution]_vars

\* C13 witness: '=rename(login, Login Page)' executed after the parse of login
C13_Witness ==
    /\ calls = 2 /\ FirstInput = RenameDocument
    /\ op = "executeCommand" /\ input.type = "rename"
    /\ ret.value /\ ret.callbacks[1].callback = "onRenameNode"
    /\ ret.callbacks[1].args = <<Login, LoginPage>>
    /\ nodeOrder = <<Login>>

\* C14: every line of the form =name(args), whatever the name, is taken out of
\* the structural text and becomes a command record, so it creates no node.
C14_AnyEqualsLineIsCommand ==
    calls >= 1 =>
      \A k \in 1..Len(Split(FirstInput, "\n")) :
        equalsCommandPattern(Trim(Split(FirstInput, "\n")[k])).ok
        => /\ \E i \in 1..Len(detectedCommands) :
                detectedCommands[i].rawCommand = Trim(Split(FirstInput, "\n")[k])
           /\ Trim(Split(FirstInput, "\n")[k]) \notin DOMAIN nodes

\* the nodes handed to executeCommand in the step being taken
FlowNodes == history'[1].ret.value.nodes

\* ref denotes node n: by its label, case aside, or as ':N' by its numeric id
MatchesRef(ref, n) ==
    \/ ToLowerCase(n.id) = ToLowerCase(ref)
    \/ IsRef(ref) /\ RefText(NodeNumberOf(nodes[n.id])) = ref

NoNodeMatches(ref) == \A i \in 1..Len(FlowNodes) : ~MatchesRef(ref, FlowNodes[i])

\* C15, step: a SelectNode command whose reference matches no node returns false
\* with onError as its one and only callback invocation
C15_Step ==
    (/\ op' = "executeCommand" /\ input'.type = "openStyleInspector"
     /\ NoNodeMatches(input'.nodeId))
    => /\ ret'.value = FALSE
       /\ Len(ret'.callbacks) = 1
       /\ ret'.callbacks[1].callback = "onError"

\* C15: executing a SelectNode command whose reference matches no node of the
\* list returns false, calls onError exactly once and calls none of onSelectNode,
\* onApplyStyle and onOpenStyleInspector.
C15_SelectNodeNotFound == [][C15_Step]_vars

\* C15 witness: '@Z' executed on the nodes A and B
C15_Witness ==
    /\ op = "executeCommand" /\ input.type = "openStyleInspector"
    /\ input.nodeId = <<"Z">> /\ nodeOrder = <<A, B>>
    /\ ~ret.value /\ ret.callbacks[1].callback = "onError"

\* params holds keyword, optional white space and a character of the value class
\* (given by the positions outside it)
HasStyle(params, keyword, outside) ==
    \E p \in 1..Len(params) : \E q \in (p + Len(keyword))..Len(params) :
        /\ MatchAt(params, p, keyword)
        /\ \A i \in (p + Len(keyword))..(q - 1) : IsWS(params[i])
        /\ q \notin outside

Recognised(params) ==
    \/ HasStyle(params, <<"f", "i", "l", "l", ":">>, {i \in 1..Len(params) : ~IsStyleChar(params[i])})
    \/ HasStyle(params, <<"b", "o", "r", "d", "e", "r", ":">>, {i \in 1..Len(params) : ~IsStyleChar(params[i])})
    \/ HasStyle(params, <<"w", "i", "d", "t", "h", ":">>, {i \in 1..Len(params) : PosIn(DigitChars, params[i]) = 0})

\* C16, step: a SelectNode command that resolves calls onSelectNode first and
\* onOpenStyleInspector last, both with the node the reference denotes, and in
\* between onApplyStyle once exactly when a style parameter is recognised
C16_Step ==
    (op' = "executeCommand" /\ input'.type = "openStyleInspector" /\ ret'.value)
    => /\ Len(ret'.callbacks) = IF Recognised(input'.params) THEN 3 ELSE 2
       /\ ret'.callbacks[1].callback = "onSelectNode"
       /\ ret'.callbacks[Len(ret'.callbacks)].callback = "onOpenStyleInspector"
       /\ ret'.callbacks[1].args = ret'.callbacks[Len(ret'.callbacks)].args
       /\ \E i \in 1..Len(FlowNodes) :
            /\ ret'.callbacks[1].args = <<FlowNodes[i]>>
            /\ ToLowerCase(FlowNodes[i].id) = ToLowerCase(input'.nodeId)
       /\ Recognised(input'.params)
            => /\ ret'.callbacks[2].callback = "onApplyStyle"
               /\ ret'.callbacks[2].args[1] = ret'.callbacks[1].args[1].id
               /\ DOMAIN ret'.callbacks[2].args[2] # {}

\* C16: a SelectNode command that resolves to a node calls onSelectNode, then
\* onApplyStyle once if fill, border or width is recognised in its parameters
\* (not at all otherwise), then onOpenStyleInspector, each once.
C16_SelectNodeCallbackOrder == [][C16_Step]_vars

\* C16 witness: '@A width:2 border:#0' executed on the nodes A and B
C16_Witness ==
    /\ op = "executeCommand" /\ input.type = "openStyleInspector"
    /\ input.nodeId = A /\ ret.value
    /\ Len(ret.callbacks) = 3
    /\ ret.callbacks[2].callback = "onApplyStyle"
    /\ ret.callbacks[2].args[2] = ("borderColor" :> <<"#", "0">> @@ "borderWidth" :> 2)

\* the reference of a SelectNode or Rename command
ReferenceOf(command) ==
    IF command.type = "rename" THEN command.oldId ELSE command.nodeId

\* the call reported "not found" for reference ref
ReportedNotFound(r, ref) ==
    \E i \in 1..Len(r.callbacks) :
        /\ r.callbacks[i].callback = "onError"
        /\ r.callbacks[i].args = <<NotFoundMessage(ref)>>

\* C17, step: a ':N' command executed on a list holding the node numbered N
\* finds that node
C17_Step ==
    (/\ op' = "executeCommand" /\ input'.type \in {"openStyleInspector", "rename"}
     /\ IsRef(ReferenceOf(input')))
    => \A i \in 1..Len(FlowNodes) :
         RefText(NodeNumberOf(nodes[FlowNodes[i].id])) = ReferenceOf(input')
         => /\ ~ReportedNotFound(ret', ReferenceOf(input'))
            /\ input'.type = "openStyleInspector"
                 => ret'.value /\ ret'.callbacks[1].args = <<FlowNodes[i]>>
            /\ (input'.type = "rename" /\ input'.newLabel # <<>>)
                 => ret'.value /\ ret'.callbacks[1].args[1] = FlowNodes[i].id

\* C17: on the nodes of getNodesAndEdges, a SelectNode or Rename command with
\* reference ':N' resolves to the node whose stored numeric id is N whenever
\* the list holds such a node.
C17_NumericReferenceResolves == [][C17_Step]_vars

\* C18, step: a Rename command fails with one onError when the lookup of the
\* old reference gives no node or the new label is empty, and otherwise
\* succeeds with one onRenameNode(matched id, new label)
C18_Step ==
    (op' = "executeCommand" /\ input'.type = "rename")
    => /\ Len(ret'.callbacks) = 1
       /\ IF ~findNode(input'.oldId, FlowNodes).found \/ input'.newLabel = <<>>
          THEN /\ ret'.value = FALSE
               /\ ret'.callbacks[1].callback = "onError"
          ELSE /\ ret'.value = TRUE
               /\ ret'.callbacks[1].callback = "onRenameNode"
               /\ ret'.callbacks[1].args =
                    <<findNode(input'.oldId, FlowNodes).node.id, input'.newLabel>>
               /\ ToLowerCase(ret'.callbacks[1].args[1]) = ToLowerCase(input'.oldId)

LastCommandFailed ==
    /\ calls >= 2 /\ op = "executeCommand"
    /\ input.type \in {"openStyleInspector", "rename"}
    /\ ret.value = FALSE

\* C19, state: the failure was reported through onError with a message, the
\* call returned, and the next command of the batch, if any, can be executed
C19_Reported ==
    LastCommandFailed
    => /\ ~ret.threw
       /\ \E i \in 1..Len(ret.callbacks) :
            /\ ret.callbacks[i].callback = "onError"
            /\ Len(ret.callbacks[i].args) = 1 /\ ret.callbacks[i].args[1] # <<>>
       /\ calls <= Len(detectedCommands) => ENABLED ExecuteCommand

\* C19, step: executing a command changes neither the registry of nodes, the
\* edges, nor the nodes and edges that getNodesAndEdges returned
C19_Step ==
    op' = "executeCommand"
    => /\ UNCHANGED <<nodes, nodeOrder, edges, nodeIdToNumber, numberToNodeId, nextId>>
       /\ history'[1] = history[1]
       /\ calls' = calls + 1
       /\ input' = detectedCommands[calls]

\* C19: a command that fails is reported through onError and does not throw;
\* the remaining commands of the batch are still executed, in order, and the
\* nodes and edges produced by the parse stay as they were.
C19_FailureContained == []C19_Reported /\ [][C19_Step]_vars

\* C19 witness: in 'A->B', '@Z', '@A' the second command runs after the first
\* has failed, on the same two nodes
C19_Witness ==
    /\ calls = 3 /\ nodeOrder = <<A, B>>
    /\ history[2].input.type = "openStyleInspector" /\ history[2].input.nodeId = <<"Z">>
    /\ ~history[2].ret.value /\ history[2].ret.callbacks[1].callback = "onError"
    /\ op = "executeCommand" /\ ret.value
    /\ Len(history[1].ret.value.nodes) = 2 /\ Len(history[1].ret.value.edges) = 1

\* the line is n arrows between n + 1 labels, none of them empty
FullLine(la) ==
    /\ Len(la.nodeLabels) = Len(la.arrows) + 1
    /\ \A i \in 1..Len(la.nodeLabels) : la.nodeLabels[i] # <<>>

\* the edges asked for by the lines from the k-th on, one per arrow and two per
\* bidirectional arrow
RECURSIVE TriplesOfLines(_, _)
TriplesOfLines(las, k) ==
    IF k > Len(las) THEN <<>>
    ELSE TriplesFrom(las[k].arrows, las[k].nodeLabels, 1) \o TriplesOfLines(las, k + 1)

\* C20: after a parse the k-th edge created has id source-target-(k-1), so the
\* ids are pairwise distinct, and no edge is dropped as a duplicate: there is
\* one edge per arrow and direction, also when 'A->B' is repeated or the arrow
\* is a self-loop 'A->A'.
C20_EdgesNeverDeduplicated ==
    (op = "parse" /\ ~ret.threw /\ Len(edges) <= Len(DigitChars))
    => /\ \A k \in 1..Len(edges) :
            edges[k].id = edges[k].source \o <<"-">> \o edges[k].target
                          \o <<"-", DigitChars[k]>>
       /\ \A j, k \in 1..Len(edges) : edges[j].id = edges[k].id => j = k
       /\ (quotedStrings = <<>> /\ \A l \in 1..Len(lineArrows) : FullLine(lineArrows[l]))
            => EdgeTriples(edges) = TriplesOfLines(lineArrows, 1)

\* C20 witness: 'A->B', 'A->B', 'A->A' gives A-B-0, A-B-1 and A-A-2
C20_Witness ==
    /\ op = "parse" /\ input = <<"A", "-", ">", "B", "\n", "A", "-", ">", "B", "\n", "A", "-", ">", "A">>
    /\ Len(edges) = 3
    /\ edges[1].id = <<"A", "-", "B", "-", "0">>
    /\ edges[2].id = <<"A", "-", "B", "-", "1">>
    /\ edges[3].id = <<"A", "-", "A", "-", "2">>
    /\ edges[3].source = edges[3].target

\* the ids of the nodes of a list
IdsOf(ns) == {ns[i].id : i \in 1..Len(ns)}

\* C21: at any time the source and the target of every edge of the EdgeBuilder
\* are keys of the NodeBuilder's registry, also when a line has thrown half-way
\* (the nodes of a line are registered before its edges are created), and in
\* every parse result they are ids of nodes of the same result.
C21_EdgesReferenceNodes ==
    /\ \A k \in 1..Len(edges) :
         edges[k].source \in DOMAIN nodes /\ edges[k].target \in DOMAIN nodes
    /\ (op = "parse" /\ ~ret.threw)
         => \A k \in 1..Len(ret.value.edges) :
              /\ ret.value.edges[k].source \in IdsOf(ret.value.nodes)
              /\ ret.value.edges[k].target \in IdsOf(ret.value.nodes)

\* C21 witness: 'B', ':2<->A' parsed after 'A', 'B' joins the nodes B and A
C21_Witness ==
    /\ calls = 2 /\ build = "resolving"
    /\ history[1].input = A \o NL \o B
    /\ op = "parse" /\ input = B \o NL \o <<":", "2", "<", "-", ">">> \o A
    /\ ~ret.threw
    /\ EdgeTriples(edges) = << <<B, A, Null>>, <<A, B, Null>> >>
    /\ nodeOrder = <<B, A>>

\* C22: for any number of quoted spans, no placeholder occurs inside another
\* one, and restoring a label that is the placeholder of span i gives the
\* content of span i.
C22_PlaceholdersUnambiguous ==
    /\ \A i, j \in 1..Len(quotedStrings) :
         i # j => IndexOf(quotedStrings[j].placeholder, quotedStrings[i].placeholder, 1) = 0
    /\ \A i \in 1..Len(quotedStrings) :
         restoreQuotedStrings(quotedStrings, quotedStrings[i].placeholder)
           = quotedStrings[i].original
    /\ \A n \in 2..MaxSpans :
         (op = "parse" /\ input = SpanDocument(n))
           => nodeOrder = [i \in 1..n |-> <<LowerChars[i]>>]

\* the executeCommand calls the step being taken has added to the log
NewlyExecuted == (Len(ui.executed) + 1)..Len(ui'.executed)

\* C23, step: the commands a scan makes FlowDiagram execute are executed on the
\* nodes that scan's parse returned
C23_Step ==
    (op' = "scan" /\ ~ret'.value.error)
    => \A k \in NewlyExecuted :
         ui'.executed[k].nodeIds = [j \in 1..Len(ret'.value.nodes) |-> ret'.value.nodes[j].id]

\* C23: every command returned by a parse is executed against the node set of
\* that same parse; a submission that adds node X to a non-empty diagram with a
\* command on X has the command executed with a node list containing X.
C23_CommandsSeeOwnParse == [][C23_Step]_vars

\* C24, step: resolveReference(ref) changes nothing; it returns ref itself when
\* ref does not start with ':', the label numbered N when ref is ':N' written
\* in full and N is assigned, and throws for every other ref
C24_Step ==
    op' = "resolveReference"
    => /\ UNCHANGED <<nodeIdToNumber, numberToNodeId, nextId>>
       /\ IF input'[1] # ":" THEN ret' = Returned(input')
          ELSE IF \E n \in DOMAIN numberToNodeId : RefText(n) = input'
          THEN \E n \in DOMAIN numberToNodeId :
                  RefText(n) = input' /\ ret' = Returned(numberToNodeId[n])
          ELSE ret'.threw

\* C24: resolveReference returns a reference that does not start with ':'
\* unchanged, returns the mapped label for ':N' only when the whole remainder is
\* an integer with an assigned label, raises an error otherwise (':3x', an
\* unassigned id), and never changes the maps or nextId.
C24_ResolveReference == [][C24_Step]_vars

\* label l is what segment seg of a line stands for: seg itself, or, with the
\* NodeBuilder that resolves references, the label that seg = ':N' denoted
StandsFor(seg, l) ==
    \/ l = seg
    \/ /\ build = "resolving" /\ IsRef(seg)
       /\ \E n \in DOMAIN numberToNodeId : RefText(n) = seg /\ numberToNodeId[n] = l

\* C25, step: after a parse the lines on record are lines of its input, every
\* registered node comes from a segment of one of them, the edges join
\* registered nodes and are numbered from 0
C25_Step ==
    op' = "parse"
    => /\ \A k \in 1..Len(lineArrows') :
            \E i \in 1..Len(InputLines(input')) : lineArrows'[k].line = InputLines(input')[i]
       /\ \A l \in DOMAIN nodes' :
            \E k \in 1..Len(lineArrows') : \E j \in 1..Len(SegmentsOf(lineArrows'[k])) :
                StandsFor(SegmentsOf(lineArrows'[k])[j], l)
       /\ {nodeOrder'[i] : i \in 1..Len(nodeOrder')} = DOMAIN nodes'
       /\ \A k \in 1..Len(edges') :
            /\ edges'[k].source \in DOMAIN nodes' /\ edges'[k].target \in DOMAIN nodes'
            /\ edges'[k].id = edges'[k].source \o <<"-">> \o edges'[k].target
                              \o <<"-">> \o NumberToString(k - 1)

\* C25: the node and edge registries are rebuilt from nothing on every parse:
\* the nodes and edges of a parse come from that call's input alone (and the id
\* mapping), a label or edge of an earlier parse only is absent, and the edge
\* sequence numbers restart at 0.
C25_RegistriesRebuilt == [][C25_Step]_vars

\* C25 witness: 'C->A' parsed after 'B<-D' has the nodes C and A and the one
\* edge C-A-0
C25_Witness ==
    /\ calls = 2 /\ history[1].op = "parse" /\ history[1].input = <<"B", "<", "-", "D">>
    /\ ~history[1].ret.threw /\ Len(history[1].ret.value.edges) = 1
    /\ op = "parse" /\ input = <<"C", "-", ">", "A">>
    /\ nodeOrder = <<C, A>>
    /\ Len(edges) = 1 /\ edges[1].id = <<"C", "-", "A", "-", "0">>
    /\ nextId = 5

\* the commands among the executeCommand calls of the step being taken
CommandsExecuted == [k \in 1..(Len(ui'.executed) - Len(ui.executed)) |->
                        ui'.executed[Len(ui.executed) + k].command]

\* C26, step: a scan on a diagram that shows nodes executes the command lines of
\* the text just submitted, each once, and nothing else
C26_Step ==
    (op' = "scan" /\ ~ret'.value.error /\ Len(ui.flowNodes) > 0)
    => CommandsExecuted = extractCommand(Trim(input')).commands

\* C26: with every submission appended to the history and the whole history
\* parsed again, each submitted command line is executed exactly once: later
\* scans do not execute it again, and a command with the same text as an
\* earlier one is executed when it is submitted again.
C26_SubmittedCommandsExecutedOnce == [][C26_Step]_vars

\* a submission without any ':N' reference in it
NoReference(text) == \A i \in 1..Len(text) : text[i] # ":"

\* C27, state: a text whose scan ended in an error is not in diagramHistory
C27_ErrorTextDropped ==
    (op = "scan" /\ ret.value.error)
    => \A i \in 1..Len(ui.diagramHistory) : ui.diagramHistory[i] # Trim(input)

\* C27, step: a submission without references is parsed and rendered, whatever
\* was submitted before it
C27_Step ==
    (op' = "scan" /\ NoReference(input') /\ Len(Trim(input')) > 0)
    => /\ ~ret'.value.error
       /\ [j \in 1..Len(ui'.flowNodes) |-> ui'.flowNodes[j].id]
            = [j \in 1..Len(ret'.value.nodes) |-> ret'.value.nodes[j].id]

\* C27: after a submission whose parse raised an error, a later valid
\* submission is parsed and rendered without a clear-canvas; the text that
\* caused the error is not kept in the diagram history.
C27_RecoversFromError == []C27_ErrorTextDropped /\ [][C27_Step]_vars

\* the trimmed text between arrow i of a line and the arrow before it (or the
\* start of the line), and between arrow i and the arrow after it (or the end)
LeftOf(line, arrows, i) ==
    Trim(Substring(line, IF i = 1 THEN 0 ELSE arrows[i - 1].index + arrows[i - 1].length,
                   arrows[i].index))
RightOf(line, arrows, i) ==
    Trim(Substring(line, arrows[i].index + arrows[i].length,
                   IF i = Len(arrows) THEN Len(line) ELSE arrows[i + 1].index))

\* the edges of a line by adjacency: arrow i joins the texts next to it, and
\* gives nothing when one of them is empty
RECURSIVE AdjacentTriples(_, _, _)
AdjacentTriples(line, arrows, i) ==
    IF i > Len(arrows) THEN <<>>
    ELSE (IF LeftOf(line, arrows, i) = <<>> \/ RightOf(line, arrows, i) = <<>> THEN <<>>
          ELSE TriplesOf(arrows[i], LeftOf(line, arrows, i), RightOf(line, arrows, i)))
         \o AdjacentTriples(line, arrows, i + 1)

RECURSIVE AdjacentTriplesOfLines(_, _)
AdjacentTriplesOfLines(las, k) ==
    IF k > Len(las) THEN <<>>
    ELSE AdjacentTriples(las[k].line, las[k].arrows, 1) \o AdjacentTriplesOfLines(las, k + 1)

\* C28: every edge of a line joins the two labels written next to the arrow it
\* comes from, with that arrow's direction and label, also when the line has an
\* empty segment (a leading arrow, two arrows in a row); an arrow with no label
\* on one side gives no edge and does not shift the pairing of the others.
C28_EdgesJoinAdjacentLabels ==
    (op = "parse" /\ ~ret.threw /\ quotedStrings = <<>>)
    => EdgeTriples(edges) = AdjacentTriplesOfLines(lineArrows, 1)

\* C29, step: a command whose label reference is exactly the id of a node of
\* the list acts on that node, whatever other nodes the list holds
C29_Step ==
    (/\ op' = "executeCommand" /\ input'.type \in {"openStyleInspector", "rename"}
     /\ ReferenceOf(input')[1] # ":")
    => \A i \in 1..Len(FlowNodes) :
         FlowNodes[i].id = ReferenceOf(input')
         => /\ input'.type = "openStyleInspector"
                 => ret'.value /\ ret'.callbacks[1].args = <<FlowNodes[i]>>
            /\ (input'.type = "rename" /\ input'.newLabel # <<>>)
                 => ret'.value /\ ret'.callbacks[1].args[1] = FlowNodes[i].id

\* C29: findNode with a label reference exactly equal to the id of a node of the
\* list returns that node, also when a node whose id differs from it in letter
\* case only comes earlier in the list.
C29_ExactLabelFound == [][C29_Step]_vars

\* C30: no node is registered, and no numeric id assigned, under the empty
\* string; every node of a parse result has a non-empty label, also for a line
\* with an empty or blank quoted segment such as '"" -> B'.
C30_NoEmptyLabel ==
    /\ <<>> \notin DOMAIN nodes
    /\ <<>> \notin DOMAIN nodeIdToNumber
    /\ \A i \in 1..Len(nodeOrder) : Len(nodeOrder[i]) > 0
    /\ (op = "parse" /\ ~ret.threw)
         => \A i \in 1..Len(ret.value.nodes) : Len(ret.value.nodes[i].id) > 0

=============================================================================
